---------------------------- MODULE Spec2Model ----------------------------
(***************************************************************************)
(* A model of cddl-cat: the CDDL parser (src/src/parser.rs) and the        *)
(* flattener that turns a syntax tree into the intermediate validation     *)
(* tree (src/src/flatten.rs).                                              *)
(*                                                                         *)
(* The parser is a set of nom combinators.  Each parser `p` of the source  *)
(* is an operator p(s, i): `s` is the whole input, a sequence of           *)
(* characters, and `i` the position of the first unread character.  Its    *)
(* value is a JResult record, see Ok / Error / Failure below.              *)
(***************************************************************************)
EXTENDS Integers, Sequences, FiniteSets, TLC

VARIABLES
    input,      \* the text handed to the parser: a sequence of characters
    pc,         \* the position of the running call
    result,     \* what the call returned
    ast,        \* the syntax tree handed to flatten
    rules,      \* flatten's RulesByName: rule name -> ArcNode
    parts,      \* history: the pieces the input was put together from
    cursor      \* flatten: how many rules (pass 1) or roots (pass 2) are done

vars == <<input, pc, result, ast, rules, parts, cursor>>

\* Option::None, and the value of a result that carries none
Null == <<"None">>

Some(x) == <<"Some", x>>

IsSome(o) == o[1] = "Some"

(***************************************************************************)
(* Characters.                                                             *)
(***************************************************************************)
Digit == {"0", "1", "2", "3", "4", "5", "6", "7", "8", "9"}

HexDigit == Digit \cup {"a", "b", "c", "d", "e", "f", "A", "B", "C", "D", "E", "F"}

Lower == {"a", "b", "c", "d", "e", "f", "g", "h", "i", "j", "k", "l", "m",
          "n", "o", "p", "q", "r", "s", "t", "u", "v", "w", "x", "y", "z"}

Upper == {"A", "B", "C", "D", "E", "F", "G", "H", "I", "J", "K", "L", "M",
          "N", "O", "P", "Q", "R", "S", "T", "U", "V", "W", "X", "Y", "Z"}

\* char::is_ascii_alphabetic
Alpha == Lower \cup Upper

\* char::to_digit(16) on a character of HexDigit
DigitVal(c) ==
    CASE c = "0" -> 0 [] c = "1" -> 1 [] c = "2" -> 2 [] c = "3" -> 3
      [] c = "4" -> 4 [] c = "5" -> 5 [] c = "6" -> 6 [] c = "7" -> 7
      [] c = "8" -> 8 [] c = "9" -> 9
      [] c \in {"a", "A"} -> 10 [] c \in {"b", "B"} -> 11
      [] c \in {"c", "C"} -> 12 [] c \in {"d", "D"} -> 13
      [] c \in {"e", "E"} -> 14 [] c \in {"f", "F"} -> 15

\* n copies of the character c
RECURSIVE Rep(_, _)
Rep(c, n) == IF n <= 0 THEN <<>> ELSE <<c>> \o Rep(c, n - 1)

\* The printable ASCII characters, U+0020 to U+007E, in order (the grave
\* accent is written by name).
Printable ==
    <<" ", "!", "\"", "#", "$", "%", "&", "'", "(", ")", "*", "+", ",", "-", ".", "/",
      "0", "1", "2", "3", "4", "5", "6", "7", "8", "9", ":", ";", "<", "=", ">", "?",
      "@", "A", "B", "C", "D", "E", "F", "G", "H", "I", "J", "K", "L", "M", "N", "O",
      "P", "Q", "R", "S", "T", "U", "V", "W", "X", "Y", "Z", "[", "\\", "]", "^", "_",
      "U+60", "a", "b", "c", "d", "e", "f", "g", "h", "i", "j", "k", "l", "m", "n", "o",
      "p", "q", "r", "s", "t", "u", "v", "w", "x", "y", "z", "{", "|", "}", "~">>

\* Characters outside printable ASCII are written by name, with their
\* code points: TAB, LF, FF, CR, DEL, U+0080, HIRAGANA NO, and characters
\* around the end of the code space.
Named ==
    {<<"\t", 9>>, <<"\n", 10>>, <<"\f", 12>>, <<"\r", 13>>, <<"U+7F", 127>>,
     <<"U+80", 128>>, <<"U+306E", 12398>>, <<"U+10FF0", 69616>>,
     <<"U+10FFD", 69629>>, <<"U+10FFE", 69630>>, <<"U+1D11E", 119070>>,
     <<"U+10FFFD", 1114109>>}

Chars == {Printable[j] : j \in 1..Len(Printable)} \cup {n[1] : n \in Named}

\* c as u32
CodeOf ==
    [c \in Chars |->
        IF \E n \in Named : n[1] = c
        THEN (CHOOSE n \in Named : n[1] = c)[2]
        ELSE 31 + (CHOOSE j \in 1..Len(Printable) : Printable[j] = c)]

\* the code points of a text
CodesOf(t) == [j \in 1..Len(t) |-> CodeOf[t[j]]]

(***************************************************************************)
(* 64-bit integers.  TLC's integers are 32 bits wide, so a u64 is kept as  *)
(* limbs of 16 bits, least significant first; every operation below is     *)
(* exact on 64 bits.                                                       *)
(***************************************************************************)
U64Bits == 64

LimbBase == 256 * 256

U64Limbs == U64Bits \div 16

\* The u64 of a small natural number.
U64(n) == [j \in 1..U64Limbs |-> IF j = 1 THEN n % LimbBase
                                 ELSE IF j = 2 THEN n \div LimbBase ELSE 0]

\* u64::MAX, which is usize::MAX on a 64-bit target
USIZE_MAX == [j \in 1..U64Limbs |-> LimbBase - 1]

\* x <= y on limbs of equal length
RECURSIVE LimbsLe(_, _, _)
LimbsLe(x, y, j) ==
    IF j = 0 THEN TRUE
    ELSE IF x[j] # y[j] THEN x[j] < y[j]
    ELSE LimbsLe(x, y, j - 1)

U64Le(x, y) == LimbsLe(x, y, U64Limbs)

\* x * m + a on limbs, for small m and a: the low limbs and the carry out
RECURSIVE MulAdd(_, _, _, _)
MulAdd(x, m, a, j) ==
    IF j > Len(x) THEN [limbs |-> <<>>, carry |-> a]
    ELSE LET t == x[j] * m + a
             rest == MulAdd(x, m, t \div LimbBase, j + 1)
         IN  [limbs |-> <<t % LimbBase>> \o rest.limbs, carry |-> rest.carry]

\* u64::wrapping_mul followed by wrapping_add, kept for comparison
wrapping_mul_add(x, m, a) == [some |-> TRUE, val |-> MulAdd(x, m, a, 1).limbs]

\* u64::checked_mul(radix) followed by u64::checked_add(digit): None on overflow
checked_mul_add(x, m, a) ==
    LET r == MulAdd(x, m, a, 1)
    IN  [some |-> r.carry = 0, val |-> r.limbs]

\* u64::from_str_radix on a non-empty run of digits of the radix
RECURSIVE from_str_radix_loop(_, _, _, _)
from_str_radix_loop(digits, radix, j, acc) ==
    CASE j > Len(digits) -> [ok |-> TRUE, val |-> acc]
      [] j <= Len(digits) /\ (\/ digits[j] \notin HexDigit
                              \/ DigitVal(digits[j]) >= radix
                              \/ ~checked_mul_add(acc, radix, DigitVal(digits[j])).some) ->
            [ok |-> FALSE, val |-> acc]
      [] OTHER ->
            from_str_radix_loop(digits, radix, j + 1,
                                checked_mul_add(acc, radix, DigitVal(digits[j])).val)

from_str_radix(digits, radix) ==
    IF digits = <<>> THEN [ok |-> FALSE, val |-> U64(0)]
    ELSE from_str_radix_loop(digits, radix, 1, U64(0))

(***************************************************************************)
(* JResult: Ok((rest, value)) / Err(Error(e)) / Err(Failure(e)).           *)
(* `pos` is where the rest of the input starts (for an error: where the    *)
(* error context starts), `kind` the ErrorKind.                            *)
(***************************************************************************)
Ok(pos, val) ==
    [k |-> "Ok", pos |-> pos, val |-> val, kind |-> "None"]

\* nom::error::ParseError::from_error_kind: always Unparseable
from_error_kind(pos) ==
    [k |-> "Error", pos |-> pos, val |-> Null, kind |-> "Unparseable"]

Error(pos) == from_error_kind(pos)

Failure(kind, pos) ==
    [k |-> "Failure", pos |-> pos, val |-> Null, kind |-> kind]

IsOk(r) == r.k = "Ok"

(***************************************************************************)
(* nom primitives.                                                         *)
(***************************************************************************)
AtEnd(s, i) == i > Len(s)

\* the position after the longest run of characters of C that starts at i
RECURSIVE RunEnd(_, _, _)
RunEnd(C, s, i) ==
    IF i <= Len(s) /\ s[i] \in C THEN RunEnd(C, s, i + 1) ELSE i

Slice(s, i, j) == SubSeq(s, i, j - 1)

\* tag(t)
tag(t, s, i) ==
    IF i + Len(t) - 1 <= Len(s) /\ Slice(s, i, i + Len(t)) = t
    THEN Ok(i + Len(t), t)
    ELSE Error(i)

\* character::complete::char(c)
charx(c, s, i) ==
    IF i <= Len(s) /\ s[i] = c THEN Ok(i + 1, c) ELSE Error(i)

\* one_of(C)
one_of(C, s, i) ==
    IF i <= Len(s) /\ s[i] \in C THEN Ok(i + 1, s[i]) ELSE Error(i)

\* take_while(C)
take_while(C, s, i) == Ok(RunEnd(C, s, i), Slice(s, i, RunEnd(C, s, i)))

\* take_while1(C), and digit1, hex_digit1, multispace1
take_while1(C, s, i) ==
    IF RunEnd(C, s, i) = i THEN Error(i) ELSE take_while(C, s, i)

\* opt(p) applied to p's result at position i
opt(r, i) ==
    IF r.k = "Error" THEN Ok(i, Null)
    ELSE IF r.k = "Ok" THEN [r EXCEPT !.val = Some(@)]
    ELSE r

\* a value under a name: With(e, LAMBDA x : body) is body with e for x
With(v, F(_)) == F(v)

\* alt((p, q)) on the results of p and of q at the same position: only an
\* Error of p lets q run
alt(r1, r2) == IF r1.k = "Error" THEN r2 ELSE r1

\* map(p, f): the value replaced
map(r, val) == IF r.k = "Ok" THEN [r EXCEPT !.val = val] ELSE r

\* one more item in front of the items a repetition collected
cons(r, rest) ==
    IF rest.k = "Ok" THEN [rest EXCEPT !.val = <<r.val>> \o @] ELSE rest

(***************************************************************************)
(* A workaround for the fact that nom's map_res discards the returned      *)
(* error: the second function's error becomes a Failure.  `r` is the       *)
(* result of the first parser and `o2` what the second function makes of   *)
(* its output, [ok, val, kind].                                            *)
(***************************************************************************)
map_res_error(r, o2) ==
    IF r.k # "Ok" THEN r
    ELSE IF o2.ok THEN Ok(r.pos, o2.val)
    ELSE Error(r.pos)

map_res_fail(r, o2) ==
    IF r.k # "Ok" THEN r
    ELSE IF o2.ok THEN Ok(r.pos, o2.val)
    ELSE Failure(o2.kind, r.pos)

(***************************************************************************)
(* Unsigned integers.                                                      *)
(***************************************************************************)
\* the parsers by name, see below
RECURSIVE apply(_, _, _)

uint_hex(s, i) ==
    LET t == tag(<<"0", "x">>, s, i)
    IN  IF t.k # "Ok" THEN t ELSE take_while1(HexDigit, s, t.pos)

uint_binary(s, i) ==
    LET t == tag(<<"0", "b">>, s, i)
    IN  IF t.k # "Ok" THEN t ELSE take_while1({"0", "1"}, s, t.pos)

uint_decimal(s, i) ==
    IF tag(<<"0">>, s, i).k = "Ok" THEN tag(<<"0">>, s, i)
    ELSE IF one_of(Digit \ {"0"}, s, i).k # "Ok" THEN Error(i)
    ELSE Ok(RunEnd(Digit, s, i), Slice(s, i, RunEnd(Digit, s, i)))

\* RawUint{slice, base}
uint(s, i) ==
    LET h == uint_hex(s, i)
        b == uint_binary(s, i)
        d == uint_decimal(s, i)
    IN  IF h.k # "Error" THEN map(h, [slice |-> h.val, base |-> 16])
        ELSE IF b.k # "Error" THEN map(b, [slice |-> b.val, base |-> 2])
        ELSE map(d, [slice |-> d.val, base |-> 10])

\* u64::from_str_radix(raw.slice, raw.base).map_err(MalformedInteger)
parse_u64(raw) ==
    LET n == from_str_radix(raw.slice, raw.base)
    IN  [ok |-> n.ok, val |-> n.val, kind |-> "MalformedInteger"]

uint_u64(s, i) ==
    LET r == uint(s, i)
    IN  IF r.k # "Ok" THEN r ELSE map_res_fail(r, parse_u64(r.val))

(***************************************************************************)
(* Whitespace and comments.                                                *)
(***************************************************************************)
\* character::complete::multispace1 takes these
Multispace == {" ", "\t", "\r", "\n"}

\* the first position at or after i that holds a line end, or Len(s) + 1
RECURSIVE LineEnd(_, _)
LineEnd(s, i) ==
    IF i <= Len(s) /\ s[i] \notin {"\r", "\n"} THEN LineEnd(s, i + 1) ELSE i

\* character::complete::not_line_ending: a CR that no LF follows is an error
not_line_ending(s, i) ==
    LET j == LineEnd(s, i)
    IN  IF j <= Len(s) /\ s[j] = "\r" /\ ~(j + 1 <= Len(s) /\ s[j + 1] = "\n")
        THEN Error(i)
        ELSE Ok(j, Slice(s, i, j))

comment(s, i) ==
    IF charx(";", s, i).k # "Ok" THEN Error(i) ELSE not_line_ending(s, i + 1)

\* whitespace that is blanks only
blanks_end(s, i) == RunEnd({" "}, s, i)

\* where many0(alt((multispace1, comment))) stops
RECURSIVE ws_end(_, _)
ws_end(s, i) ==
    IF RunEnd(Multispace, s, i) > i THEN ws_end(s, RunEnd(Multispace, s, i))
    ELSE IF comment(s, i).k = "Ok" THEN ws_end(s, comment(s, i).pos)
    ELSE i

ws(s, i) == Ok(ws_end(s, i), Slice(s, i, ws_end(s, i)))

\* An optional comma and any whitespace surrounding it.
optcom(s, i) ==
    LET w == ws_end(s, i)
    IN  IF tag(<<",">>, s, w).k = "Ok" THEN Ok(ws_end(s, w + 1), Null) ELSE Ok(w, Null)

(***************************************************************************)
(* Identifiers.                                                            *)
(***************************************************************************)
\* ealpha_char
EAlpha == Alpha \cup {"@", "_", "$"}

ealpha(s, i) == take_while1(EAlpha, s, i)

\* a tail that takes at most one "-" or "." before the EALPHA / DIGIT
ident_tail_one_sep(s, i) ==
    LET d == IF i <= Len(s) /\ s[i] \in {"-", "."} THEN i + 1 ELSE i
        a == ealpha(s, d)
        n == take_while1(Digit, s, d)
    IN  IF a.k = "Ok" THEN Ok(a.pos, Slice(s, i, a.pos))
        ELSE IF n.k = "Ok" THEN Ok(n.pos, Slice(s, i, n.pos))
        ELSE n

\* The tail characters of an ident: *("-" / ".") (EALPHA / DIGIT)
ident_tail(s, i) ==
    LET d == RunEnd({"-", "."}, s, i)
        a == ealpha(s, d)
        n == take_while1(Digit, s, d)
    IN  IF a.k = "Ok" THEN Ok(a.pos, Slice(s, i, a.pos))
        ELSE IF n.k = "Ok" THEN Ok(n.pos, Slice(s, i, n.pos))
        ELSE n

\* where many0(ident_tail) stops
RECURSIVE ident_tails_end(_, _)
ident_tails_end(s, i) ==
    IF ident_tail(s, i).k = "Ok" THEN ident_tails_end(s, ident_tail(s, i).pos) ELSE i

ident(s, i) ==
    LET a == ealpha(s, i)
    IN  IF a.k # "Ok" THEN a
        ELSE Ok(ident_tails_end(s, a.pos), Slice(s, i, ident_tails_end(s, a.pos)))

(***************************************************************************)
(* Numbers.                                                                *)
(***************************************************************************)
\* RawInt{slice, base, neg}
int(s, i) ==
    LET m == opt(charx("-", s, i), i)
        u == uint(s, m.pos)
    IN  IF u.k # "Ok" THEN u
        ELSE Ok(u.pos, [slice |-> u.val.slice, base |-> u.val.base,
                        neg |-> IsSome(m.val)])

dot_fraction(s, i) ==
    LET c == charx(".", s, i)
        d == take_while1(Digit, s, c.pos)
    IN  IF c.k # "Ok" THEN c
        ELSE IF d.k # "Ok" THEN d
        ELSE Ok(d.pos, Slice(s, i, d.pos))

e_exponent(s, i) ==
    LET c == charx("e", s, i)
        g == opt(one_of({"+", "-"}, s, c.pos), c.pos)
        d == take_while1(Digit, s, g.pos)
    IN  IF c.k # "Ok" THEN c
        ELSE IF d.k # "Ok" THEN d
        ELSE Ok(d.pos, Slice(s, i, d.pos))

\* Whether a text is a decimal numeral str::parse::<f64> accepts:
\* [+-] digits [. digits] [e|E [+-] digits], "inf", "nan" and the forms
\* without an integer part left out, as the grammar never produces them.
f64_from_str_ok(t) ==
    LET a == IF Len(t) >= 1 /\ t[1] \in {"+", "-"} THEN 2 ELSE 1
        b == RunEnd(Digit, t, a)
        c == IF b <= Len(t) /\ t[b] = "." THEN RunEnd(Digit, t, b + 1) ELSE b
        d == IF c <= Len(t) /\ t[c] \in {"e", "E"}
             THEN (IF c + 1 <= Len(t) /\ t[c + 1] \in {"+", "-"} THEN c + 2 ELSE c + 1)
             ELSE c
        e == IF d > c THEN RunEnd(Digit, t, d) ELSE c
    IN  /\ b > a
        /\ d > c => e > d
        /\ e = Len(t) + 1

\* Value constructors.  A float keeps its numeral: no operation of the
\* parser reads the f64 back.
Uint(n) == <<"Uint", n>>

Nint(mag) == <<"Nint", mag>>

Float(numeral) == <<"Float", numeral>>

Text(codes) == <<"Text", codes>>

Bytes(bytes) == <<"Bytes", bytes>>

\* a conversion that takes every recognized text as a float
accept_float(t) ==
    [ok |-> TRUE, val |-> Float(t), kind |-> "MalformedFloat"]

\* A helper function for converting string -> Value::Float
parse_float(t) ==
    [ok |-> f64_from_str_ok(t), val |-> Float(t), kind |-> "MalformedFloat"]

\* a conversion that also takes 2^63, the magnitude of i64::MIN
try_into_i64_or_min(x) ==
    \/ x[U64Limbs] < LimbBase \div 2
    \/ x = [j \in 1..U64Limbs |-> IF j = U64Limbs THEN LimbBase \div 2 ELSE 0]

\* i64::try_from(u64): the top bit must be clear
try_into_i64(x) == x[U64Limbs] < LimbBase \div 2

\* usize::try_from(u64), on a target whose usize has 64 bits
try_into_usize(x) == TRUE

\* A helper function for converting RawInt -> Value::Xint.
\* Nint holds the magnitude m of the value -m.
parse_int(raw) ==
    LET posint == from_str_radix(raw.slice, raw.base)
    IN  IF ~posint.ok
        THEN [ok |-> FALSE, val |-> Null, kind |-> "MalformedInteger"]
        ELSE IF raw.neg
        THEN [ok |-> try_into_i64(posint.val), val |-> Nint(posint.val),
              kind |-> "MalformedInteger"]
        ELSE [ok |-> TRUE, val |-> Uint(posint.val), kind |-> "MalformedInteger"]

\* int ["." fraction] ["e" exponent ]
float_or_int(s, i) ==
    LET n == apply("int", s, i)
        frac == opt(dot_fraction(s, n.pos), n.pos)
        exp == opt(e_exponent(s, frac.pos), frac.pos)
    IN  IF n.k # "Ok" THEN n
        ELSE map_res_fail(exp,
                          IF IsSome(frac.val) \/ IsSome(exp.val)
                          THEN parse_float(Slice(s, i, exp.pos))
                          ELSE parse_int(n.val))

(***************************************************************************)
(* Byte strings.                                                           *)
(***************************************************************************)
bytestring_utf8(s, i) ==
    LET a == charx("'", s, i)
        e == RunEnd(Alpha, s, a.pos)
        z == charx("'", s, e)
    IN  IF a.k # "Ok" THEN a
        ELSE IF z.k # "Ok" THEN z
        ELSE Ok(z.pos, Slice(s, a.pos, e))

\* where many0(terminated(hex_digit1, ws)) stops
RECURSIVE hex_runs_end(_, _)
hex_runs_end(s, i) ==
    IF RunEnd(HexDigit, s, i) > i
    THEN hex_runs_end(s, ws_end(s, RunEnd(HexDigit, s, i)))
    ELSE i

bytestring_hex(s, i) ==
    LET a == tag(<<"h", "'">>, s, i)
        e == hex_runs_end(s, ws_end(s, a.pos))
        z == charx("'", s, e)
    IN  IF a.k # "Ok" THEN a
        ELSE IF z.k # "Ok" THEN z
        ELSE Ok(z.pos, Slice(s, a.pos, e))

is_base64_char(c) ==
    \/ \E r \in {<<48, 57>>, <<65, 90>>, <<97, 122>>} : CodeOf[c] \in r[1]..r[2]
    \/ c \in {"+", "/", "="}

Base64Chars == {c \in Chars : is_base64_char(c)}

bytestring_base64(s, i) ==
    LET a == tag(<<"b", "6", "4", "'">>, s, i)
        e == RunEnd(Base64Chars, s, a.pos)
        z == charx("'", s, e)
    IN  IF a.k # "Ok" THEN a
        ELSE IF z.k # "Ok" THEN z
        ELSE Ok(z.pos, Slice(s, a.pos, e))

\* char::is_ascii_whitespace
AsciiWhitespace == {" ", "\t", "\n", "\f", "\r"}

\* hex::decode: an odd length or a character that is no hex digit is an error
RECURSIVE hex_decode(_, _)
hex_decode(t, j) ==
    IF j > Len(t) THEN [ok |-> TRUE, val |-> <<>>]
    ELSE IF j = Len(t) \/ t[j] \notin HexDigit \/ t[j + 1] \notin HexDigit
         THEN [ok |-> FALSE, val |-> <<>>]
    ELSE LET rest == hex_decode(t, j + 2)
         IN  [ok |-> rest.ok,
              val |-> <<16 * DigitVal(t[j]) + DigitVal(t[j + 1])>> \o rest.val]

\* A helper function for parsing hex digits to bytes, while
\* ignoring whitespace and mapping to the right error type.
parse_hex(t) ==
    LET bytes == hex_decode(SelectSeq(t, LAMBDA c : c \notin AsciiWhitespace), 1)
    IN  [ok |-> bytes.ok, val |-> bytes.val, kind |-> "MalformedHex"]

\* the value is the byte sequence
bytestring(s, i) ==
    LET u == bytestring_utf8(s, i)
        h == bytestring_hex(s, i)
        hx == IF h.k = "Ok" THEN map_res_fail(h, parse_hex(h.val)) ELSE h
        b == bytestring_base64(s, i)
    IN  IF u.k # "Error" THEN map(u, CodesOf(u.val))
        ELSE IF hx.k # "Error" THEN hx
        ELSE map(b, CodesOf(b.val))

(***************************************************************************)
(* Text.                                                                   *)
(***************************************************************************)
\* the ranges of is_unescaped_schar, as written in the source
SCharRanges == {<<32, 33>>, <<35, 88>>, <<93, 126>>, <<128, 69629>>}

is_unescaped_schar(c) == \E r \in SCharRanges : CodeOf[c] \in r[1]..r[2]

UnescapedSChars == {c \in Chars : is_unescaped_schar(c)}

\* One or more unescaped text characters
unescaped_schar(s, i) == take_while1(UnescapedSChars, s, i)

\* A single escaped character
sesc(s, i) ==
    IF i + 1 <= Len(s) /\ s[i] = "\\" THEN Ok(i + 2, <<s[i + 1]>>) ELSE Error(i)

\* where many0(alt((unescaped_schar, sesc))) stops
RECURSIVE schar_end(_, _)
schar_end(s, i) ==
    IF unescaped_schar(s, i).k = "Ok" THEN schar_end(s, unescaped_schar(s, i).pos)
    ELSE IF sesc(s, i).k = "Ok" THEN schar_end(s, sesc(s, i).pos)
    ELSE i

schar(s, i) == Ok(schar_end(s, i), Slice(s, i, schar_end(s, i)))

\* escape8259::unescape.  `stash` is a high surrogate waiting for its low
\* surrogate (0: none); the value is the sequence of code points.
IsHex4(t, j) == j + 3 <= Len(t) /\ \A d \in 0..3 : t[j + d] \in HexDigit

Hex4(t, j) ==
    4096 * DigitVal(t[j]) + 256 * DigitVal(t[j + 1])
        + 16 * DigitVal(t[j + 2]) + DigitVal(t[j + 3])

SimpleEscape(d) ==
    CASE d = "b" -> 8 [] d = "f" -> 12 [] d = "n" -> 10 [] d = "r" -> 13
      [] d = "t" -> 9 [] OTHER -> CodeOf[d]

RECURSIVE unescape_loop(_, _, _)
unescape_loop(t, j, stash) ==
    LET bad == [ok |-> FALSE, val |-> <<>>]
        push(code, rest) == [ok |-> rest.ok, val |-> <<code>> \o rest.val]
    IN  IF j > Len(t) THEN [ok |-> stash = 0, val |-> <<>>]
        ELSE IF t[j] # "\\"
        THEN (IF stash # 0 THEN bad ELSE push(CodeOf[t[j]], unescape_loop(t, j + 1, 0)))
        ELSE IF j = Len(t) THEN bad
        ELSE IF t[j + 1] \in {"\"", "\\", "/", "b", "f", "n", "r", "t"}
        THEN (IF stash # 0 THEN bad
              ELSE push(SimpleEscape(t[j + 1]), unescape_loop(t, j + 2, 0)))
        ELSE IF t[j + 1] = "u" /\ IsHex4(t, j + 2)
        THEN LET u == Hex4(t, j + 2)
             IN  IF stash = 0
                 THEN (IF u \in 55296..56319 THEN unescape_loop(t, j + 6, u)
                       ELSE IF u \in 56320..57343 THEN bad
                       ELSE push(u, unescape_loop(t, j + 6, 0)))
                 ELSE (IF u \in 56320..57343
                       THEN push(65536 + (stash - 55296) * 1024 + (u - 56320),
                                 unescape_loop(t, j + 6, 0))
                       ELSE bad)
        ELSE bad

unescape(t) ==
    LET u == unescape_loop(t, 1, 0)
    IN  [ok |-> u.ok, val |-> u.val, kind |-> "MalformedText"]

\* the value is the sequence of code points of the String
text_literal(s, i) ==
    LET a == charx("\"", s, i)
        e == schar_end(s, a.pos)
        z == charx("\"", s, e)
    IN  IF a.k # "Ok" THEN a
        ELSE IF z.k # "Ok" THEN z
        ELSE map_res_fail(z, unescape(Slice(s, a.pos, e)))

\* value = number / text / bytes
value(s, i) ==
    LET n == apply("float_or_int", s, i)
        t == apply("text_literal", s, i)
        b == apply("bytestring", s, i)
    IN  IF n.k # "Error" THEN n
        ELSE IF t.k # "Error" THEN map(t, Text(t.val))
        ELSE map(b, Bytes(b.val))

(***************************************************************************)
(* The grammar.  Syntax tree nodes are tuples that start with the name of  *)
(* the variant.  A sequence of parsers stops at the first that is not Ok,  *)
(* a choice at the first that is no Error.                                 *)
(***************************************************************************)
\* memberkey = type1 S ["^" S] "=>"
memberkey_type1(s, i) ==
    LET t == apply("type1", s, i)
        cut == opt(tag(<<"^">>, s, ws_end(s, t.pos)), ws_end(s, t.pos))
        c == IF IsSome(cut.val) THEN ws_end(s, cut.pos) ELSE cut.pos
        arrow == tag(<<"=", ">">>, s, c)
    IN  IF t.k # "Ok" THEN t
        ELSE map(arrow, <<"MemberKey", <<"Type1", t.val>>, IsSome(cut.val)>>)

\* a bareword key that is not marked as cut
bareword_not_cut(s, i) ==
    LET id == ident(s, i)
        colon == tag(<<":">>, s, ws_end(s, id.pos))
    IN  IF id.k # "Ok" THEN id
        ELSE map(colon, <<"MemberKey", <<"Bareword", id.val>>, FALSE>>)

\*           / bareword S ":"
memberkey_bareword(s, i) ==
    LET id == ident(s, i)
        colon == tag(<<":">>, s, ws_end(s, id.pos))
    IN  IF id.k # "Ok" THEN id
        ELSE map(colon, <<"MemberKey", <<"Bareword", id.val>>, TRUE>>)

\*           / value S ":"
memberkey_value(s, i) ==
    LET v == apply("value", s, i)
        colon == tag(<<":">>, s, ws_end(s, v.pos))
    IN  IF v.k # "Ok" THEN v
        ELSE map(colon, <<"MemberKey", <<"Value", v.val>>, TRUE>>)

memberkey(s, i) ==
    LET t1 == memberkey_type1(s, i)
        bw == memberkey_bareword(s, i)
    IN  IF t1.k # "Error" THEN t1
        ELSE IF bw.k # "Error" THEN bw
        ELSE memberkey_value(s, i)

\* [memberkey S] type
grpent_member(s, i) ==
    LET key == opt(apply("memberkey", s, i), i)
        t == apply("ty", s, ws_end(s, key.pos))
    IN  IF key.k # "Ok" THEN key
        ELSE map(t, <<"Member", key.val, t.val>>)

grpent_parens(s, i) ==
    LET a == charx("(", s, i)
        g == apply("group", s, ws_end(s, a.pos))
        z == charx(")", s, ws_end(s, g.pos))
    IN  IF a.k # "Ok" THEN a
        ELSE IF g.k # "Ok" THEN g
        ELSE map(z, g.val)

\* the alternatives of grpent_val with the group name tried first
groupname_first(s, i) ==
    LET id == ident(s, i)
        m == grpent_member(s, i)
        parens == grpent_parens(s, i)
    IN  IF id.k # "Error" THEN map(id, <<"Groupname", id.val>>)
        ELSE IF m.k # "Error" THEN m
        ELSE map(parens, <<"Parenthesized", parens.val>>)

grpent_val(s, i) ==
    LET m == grpent_member(s, i)
        id == ident(s, i)
        parens == grpent_parens(s, i)
    IN  IF m.k # "Error" THEN m
        ELSE IF id.k # "Error" THEN map(id, <<"Groupname", id.val>>)
        ELSE map(parens, <<"Parenthesized", parens.val>>)

\* occur = [uint] "*" [uint]
\* The closure of map_res fails only when try_into_int does; nom's map_res
\* turns that error into an Error of kind Unparseable.
occur_star(s, i) ==
    LET lo == opt(apply("uint_u64", s, i), i)
        star == tag(<<"*">>, s, lo.pos)
        hi == opt(apply("uint_u64", s, star.pos), star.pos)
        lower == IF IsSome(lo.val) THEN lo.val[2] ELSE U64(0)
        upper == IF IsSome(hi.val) THEN hi.val[2] ELSE USIZE_MAX
    IN  IF lo.k # "Ok" THEN lo
        ELSE IF star.k # "Ok" THEN star
        ELSE IF hi.k # "Ok" THEN hi
        ELSE IF ~IsSome(lo.val) /\ ~IsSome(hi.val) THEN map(hi, <<"ZeroOrMore">>)
        ELSE IF (IsSome(lo.val) /\ ~try_into_usize(lower))
                \/ (IsSome(hi.val) /\ ~try_into_usize(upper))
        THEN Error(i)
        ELSE map(hi, <<"Numbered", lower, upper>>)

\*       / "+"
\*       / "?"
occur(s, i) ==
    LET st == occur_star(s, i)
    IN  IF st.k # "Error" THEN st
        ELSE alt(map(tag(<<"+">>, s, i), <<"OneOrMore">>),
                 map(tag(<<"?">>, s, i), <<"Optional">>))

\* grpent = [occur S] [memberkey S] type
\*        / [occur S] groupname [genericarg]  ; preempted by above
\*        / [occur S] "(" S group S ")"
grpent(s, i) ==
    LET oc == opt(apply("occur", s, i), i)
        at == IF IsSome(oc.val) THEN ws_end(s, oc.pos) ELSE oc.pos
        v == apply("grpent_val", s, at)
    IN  IF oc.k # "Ok" THEN oc
        ELSE map(v, <<"GrpEnt", oc.val, v.val>>)

\* many0(terminated(grpent, optcom)); an item that consumes nothing is an
\* error of many0
RECURSIVE grpents(_, _)
grpents(s, i) ==
    LET e == apply("grpent", s, i)
    IN  IF e.k = "Error" THEN Ok(i, <<>>)
        ELSE IF e.k = "Failure" THEN e
        ELSE IF optcom(s, e.pos).pos = i THEN Error(i)
        ELSE cons(e, grpents(s, optcom(s, e.pos).pos))

\* grpchoice = zero-or-more "grpent optional-comma"
grpchoice(s, i) ==
    LET f == grpents(s, i)
    IN  map(f, <<"GrpChoice", f.val>>)

\* many0(preceded(delimited(ws, tag("//"), ws), grpchoice))
RECURSIVE grpchoices(_, _)
grpchoices(s, i) ==
    LET sep == tag(<<"/", "/">>, s, ws_end(s, i))
        gc == apply("grpchoice", s, ws_end(s, sep.pos))
    IN  IF sep.k # "Ok" \/ gc.k = "Error" THEN Ok(i, <<>>)
        ELSE IF gc.k = "Failure" THEN gc
        ELSE cons(gc, grpchoices(s, gc.pos))

\* group = grpchoice *(S "//" S grpchoice)
group(s, i) ==
    LET first == apply("grpchoice", s, i)
        gcs == cons(first, grpchoices(s, first.pos))
    IN  IF first.k # "Ok" THEN first
        ELSE map(gcs, <<"Group", gcs.val>>)

\* "(" S type S ")"
type2_parens(s, i) ==
    LET a == charx("(", s, i)
        t == apply("ty", s, ws_end(s, a.pos))
        z == charx(")", s, ws_end(s, t.pos))
    IN  IF a.k # "Ok" THEN a
        ELSE IF t.k # "Ok" THEN t
        ELSE map(z, t.val)

\* "{" S group S "}"
type2_map(s, i) ==
    LET a == charx("{", s, i)
        g == apply("group", s, ws_end(s, a.pos))
        z == charx("}", s, ws_end(s, g.pos))
    IN  IF a.k # "Ok" THEN a
        ELSE IF g.k # "Ok" THEN g
        ELSE map(z, g.val)

\* "[" S group S "]"
type2_array(s, i) ==
    LET a == charx("[", s, i)
        g == apply("group", s, ws_end(s, a.pos))
        z == charx("]", s, ws_end(s, g.pos))
    IN  IF a.k # "Ok" THEN a
        ELSE IF g.k # "Ok" THEN g
        ELSE map(z, g.val)

\* "~" S typename [genericarg]
type2_unwrap(s, i) ==
    LET a == tag(<<"~">>, s, i)
    IN  IF a.k # "Ok" THEN a ELSE ident(s, ws_end(s, a.pos))

type2(s, i) ==
    LET v == apply("value", s, i)
        id == ident(s, i)
        pa == type2_parens(s, i)
        ma == type2_map(s, i)
        ar == type2_array(s, i)
        un == type2_unwrap(s, i)
    IN  IF v.k # "Error" THEN map(v, <<"Value", v.val>>)
        ELSE IF id.k # "Error" THEN map(id, <<"Typename", id.val>>)
        ELSE IF pa.k # "Error" THEN map(pa, <<"Parethesized", pa.val>>)
        ELSE IF ma.k # "Error" THEN map(ma, <<"Map", ma.val>>)
        ELSE IF ar.k # "Error" THEN map(ar, <<"Array", ar.val>>)
        ELSE map(un, <<"Unwrap", un.val>>)

\* Returns the string containing the control identifier
control_op(s, i) ==
    LET dot == tag(<<".">>, s, i)
    IN  IF dot.k # "Ok" THEN dot ELSE ident(s, dot.pos)

\* Returns the range or control operator string
\* (either ".." or "..." or the control identifier)
range_or_control_op(s, i) ==
    LET op == alt(tag(<<".", ".", ".">>, s, i),
                  alt(tag(<<".", ".">>, s, i), control_op(s, i)))
        t2 == apply("type2", s, ws_end(s, op.pos))
    IN  IF op.k # "Ok" THEN op
        ELSE map(t2, <<op.val, t2.val>>)

\* type1 = type2 [S (rangeop / ctlop) S type2]
type1(s, i) ==
    LET first == apply("type2", s, i)
        rc == opt(apply("range_or_control_op", s, ws_end(s, first.pos)), first.pos)
        op == rc.val[2][1]
        second == rc.val[2][2]
    IN  IF first.k # "Ok" THEN first
        ELSE IF rc.k # "Ok" THEN rc
        ELSE IF ~IsSome(rc.val) THEN map(rc, <<"Simple", first.val>>)
        ELSE IF op = <<".", ".">> THEN map(rc, <<"Range", first.val, second, TRUE>>)
        ELSE IF op = <<".", ".", ".">> THEN map(rc, <<"Range", first.val, second, FALSE>>)
        ELSE map(rc, <<"Control", first.val, op, second>>)

\* the rest of separated_nonempty_list(delimited(ws, tag("/"), ws), type1):
\* when no type1 follows a separator the list ends before the separator
RECURSIVE type1s(_, _)
type1s(s, i) ==
    LET sep == tag(<<"/">>, s, ws_end(s, i))
        t == apply("type1", s, ws_end(s, sep.pos))
    IN  IF sep.k # "Ok" \/ t.k = "Error" THEN Ok(i, <<>>)
        ELSE IF t.k = "Failure" THEN t
        ELSE cons(t, type1s(s, t.pos))

\* type = type1 [ / type1 ... ]
ty(s, i) ==
    LET first == apply("type1", s, i)
        list == cons(first, type1s(s, first.pos))
    IN  IF first.k # "Ok" THEN first
        ELSE map(list, <<"Type", list.val>>)

\* This is the right side of a rule: one of:
\*     assignt S type
\*     assigng S grpent
rule_val(s, i) ==
    LET eq == tag(<<"=">>, s, i)
        t == apply("ty", s, ws_end(s, eq.pos))
        g == apply("grpent", s, ws_end(s, eq.pos))
    IN  IF eq.k # "Ok" THEN eq
        ELSE IF t.k # "Error" THEN map(t, <<"AssignType", t.val>>)
        ELSE map(g, <<"AssignGroup", g.val>>)

rule(s, i) ==
    LET name == ident(s, i)
        val == rule_val(s, ws_end(s, name.pos))
    IN  IF name.k # "Ok" THEN name
        ELSE map(val, <<"Rule", name.val, val.val>>)

\* the rest of many1(terminated(rule, ws))
RECURSIVE rules_rest(_, _)
rules_rest(s, i) ==
    LET r == apply("rule", s, i)
    IN  IF r.k = "Error" THEN Ok(i, <<>>)
        ELSE IF r.k = "Failure" THEN r
        ELSE cons(r, rules_rest(s, ws_end(s, r.pos)))

\* cddl = S 1*(rule S)
cddl(s, i) ==
    LET first == apply("rule", s, ws_end(s, i))
        list == cons(first, rules_rest(s, ws_end(s, first.pos)))
    IN  IF first.k # "Ok" THEN first
        ELSE map(list, <<"Cddl", list.val>>)

\* a recognizer that takes the whitespace after the parsed text as well
recognize_with_ws(r, s, i) ==
    map(r, <<r.val, Slice(s, i, ws_end(s, r.pos))>>)

\* This is similar to nom's `recognize` function: on the result r of a
\* parser that started at i, the output and the slice it was parsed from,
\* in the order cddl_slice stores them.
recognizer(r, s, i) ==
    map(r, <<r.val, Slice(s, i, r.pos)>>)

\* the rest of many1(terminated(map(recognizer(rule), ..), ws))
RECURSIVE slices_rest(_, _)
slices_rest(s, i) ==
    LET r == apply("rule", s, i)
    IN  IF r.k = "Error" THEN Ok(i, <<>>)
        ELSE IF r.k = "Failure" THEN r
        ELSE cons(recognizer(r, s, i), slices_rest(s, ws_end(s, r.pos)))

cddl_slice(s, i) ==
    LET first == apply("rule", s, ws_end(s, i))
        list == cons(recognizer(first, s, ws_end(s, i)),
                     slices_rest(s, ws_end(s, first.pos)))
    IN  IF first.k # "Ok" THEN first
        ELSE map(list, <<"CddlSlice", list.val>>)

\* The parsers by name: the combinators take them as functions, and each is
\* reached from the others through this table.
apply(f, s, i) ==
    CASE f = "uint_u64" -> uint_u64(s, i)
      [] f = "int" -> int(s, i)
      [] f = "float_or_int" -> float_or_int(s, i)
      [] f = "bytestring" -> bytestring(s, i)
      [] f = "text_literal" -> text_literal(s, i)
      [] f = "value" -> value(s, i)
      [] f = "occur" -> occur(s, i)
      [] f = "memberkey" -> memberkey(s, i)
      [] f = "grpent_val" -> grpent_val(s, i)
      [] f = "grpent" -> grpent(s, i)
      [] f = "grpchoice" -> grpchoice(s, i)
      [] f = "group" -> group(s, i)
      [] f = "type2" -> type2(s, i)
      [] f = "range_or_control_op" -> range_or_control_op(s, i)
      [] f = "type1" -> type1(s, i)
      [] f = "ty" -> ty(s, i)
      [] f = "rule" -> rule(s, i)
      [] f = "cddl" -> cddl(s, i)
      [] f = "cddl_slice" -> cddl_slice(s, i)

\* a parser run that accepts whatever prefix it consumed
accept_prefix(r, s) ==
    r

\* combinator::all_consuming
all_consuming(r, s) ==
    IF r.k = "Ok" /\ r.pos <= Len(s) THEN from_error_kind(r.pos) ELSE r

\* `?` on the JResult: the value without the rest of the input, or the
\* ParseError; From<nom::Err<ParseError>> keeps the kind of an Error and of
\* a Failure.
into_result(r, s) ==
    IF r.k = "Ok" THEN [r EXCEPT !.pos = Len(s) + 1] ELSE [r EXCEPT !.k = "Err"]

\* The main entry point for parsing CDDL text: Ok(Cddl) or Err(ParseError)
parse_cddl(s) == into_result(all_consuming(apply("cddl", s, 1), s), s)

\* An entry point for parsing CDDL text, preserving rule strings
slice_parse_cddl(s) == into_result(all_consuming(apply("cddl_slice", s, 1), s), s)

(***************************************************************************)
(* parse_cddl on texts put together from pieces: whole rules, rules that   *)
(* hold a malformed literal, and text that is no rule.                     *)
(***************************************************************************)
\* how many pieces a text is put together from
MaxParts == 3

\* a decimal numeral above u64::MAX
Nines == Rep("9", 20)

GoodRules ==
    {<<"x", "=", "1">>,
     <<"y", " ", "=", " ", "{", " ", "a", ":", " ", "1", ",", " ", "?", " ", "b",
       " ", "=", ">", " ", "t", "s", "t", "r", " ", "}">>,
     <<"z", " ", "=", " ", "1", " ", ".", ".", " ", "9", " ", "/", " ", "\"", "t", "\"">>,
     <<"g", " ", "=", " ", "(", "2", "*", "3", " ", "c", ":", " ", "i", "n", "t", ")">>}

\* rules with a malformed literal: as a type, as a map key, as a later
\* alternative of a choice, inside an array, as the end of a range
BadRules ==
    {[raises |-> "MalformedInteger", text |-> <<"x", "=">> \o Nines],
     [raises |-> "MalformedText",
      text |-> <<"y", " ", "=", " ", "{", " ", "\"", "\\", "u", "d", "8", "0", "0",
                 "\"", " ", "=", ">", " ", "a", " ", "}">>],
     [raises |-> "MalformedFloat",
      text |-> <<"z", " ", "=", " ", "1", " ", "/", " ", "0", "b", "1", "e", "1">>],
     [raises |-> "MalformedHex",
      text |-> <<"w", " ", "=", " ", "[", " ", "h", "'", "6", "'", " ", "]">>],
     [raises |-> "MalformedInteger",
      text |-> <<"v", " ", "=", " ", "1", " ", ".", ".", " ">> \o Nines]}

\* text that starts no rule, or continues the rule before it
Junk ==
    {<<"y">>, <<"=", " ", "1">>, Nines, <<";", "c">>, <<".", ".", " ">> \o Nines}

Pieces ==
    {[kind |-> "Rule", raises |-> "None", text |-> r] : r \in GoodRules}
    \cup {[kind |-> "Bad", raises |-> b.raises, text |-> b.text] : b \in BadRules}
    \cup {[kind |-> "Junk", raises |-> "None", text |-> j] : j \in Junk}

\* the pieces, one per line
RECURSIVE Lines(_)
Lines(ps) ==
    IF ps = <<>> THEN <<>>
    ELSE IF Len(ps) = 1 THEN ps[1].text
    ELSE ps[1].text \o <<"\n">> \o Lines(Tail(ps))

PartLists == UNION {[1..n -> Pieces] : n \in 0..MaxParts}

InitParse ==
    /\ parts \in PartLists
    /\ input = Lines(parts)
    /\ pc = "parse_cddl"
    /\ result = Null
    /\ ast = Null
    /\ rules = Null
    /\ cursor = 0

CallParseCddl ==
    /\ pc = "parse_cddl"
    /\ result' = parse_cddl(input)
    /\ pc' = "done"
    /\ UNCHANGED <<input, ast, rules, parts, cursor>>

NextParse == CallParseCddl

SpecParse == InitParse /\ [][NextParse]_vars

\* The rules one after the other from position i, n of them so far: how
\* many there are, where the last one (and the whitespace after it) ends,
\* and how the parser of the next one stops there.
RECURSIVE RulesFrom(_, _, _)
RulesFrom(s, i, n) ==
    LET r == apply("rule", s, i)
    IN  IF IsOk(r) THEN RulesFrom(s, ws_end(s, r.pos), n + 1)
        ELSE [count |-> n, pos |-> i, stop |-> r.k]

Consumed == RulesFrom(input, ws_end(input, 1), 0)

AllOfKind(ps, kind) == \A j \in 1..Len(ps) : ps[j].kind = kind

\* C1: parse_cddl returns Ok only when the whole input is whitespace, one or
\* more rules and whitespace, and then it holds exactly those rules; when
\* the rules stop before the end of the input because what is left starts
\* no rule, or when there is no rule at all, the result is an error of kind
\* Unparseable and never an Ok holding the rules parsed so far.
C1_WholeInputOrUnparseable ==
    pc = "done" =>
        /\ result.k = "Ok" =>
            /\ Consumed.count >= 1
            /\ Consumed.pos = Len(input) + 1
            /\ result.val[1] = "Cddl"
            /\ Len(result.val[2]) = Consumed.count
        /\ (Consumed.stop = "Error"
                /\ (Consumed.count = 0 \/ Consumed.pos <= Len(input))) =>
            /\ result.k = "Err"
            /\ result.kind = "Unparseable"
        /\ (parts # <<>> /\ AllOfKind(parts, "Rule")) =>
            /\ result.k = "Ok"
            /\ Len(result.val[2]) = Len(parts)
        /\ parts = <<>> => result.k = "Err" /\ result.kind = "Unparseable"

\* rules were parsed, text that starts no rule is left, the result is an error
C1_Witness ==
    /\ pc = "done"
    /\ Consumed.count >= 1
    /\ Consumed.stop = "Error"
    /\ Consumed.pos <= Len(input)
    /\ result.k = "Err"
    /\ result.kind = "Unparseable"

MalformedKinds ==
    {"MalformedInteger", "MalformedFloat", "MalformedHex", "MalformedText"}

\* the first piece that is not a whole rule is a rule with a malformed literal
BadAt(j) ==
    /\ j \in 1..Len(parts)
    /\ parts[j].kind = "Bad"
    /\ \A h \in 1..(j - 1) : parts[h].kind = "Rule"

\* C2: when a literal sub-parser raises MalformedInteger, MalformedFloat,
\* MalformedHex or MalformedText anywhere in the input, no alternative,
\* option or repetition around it swallows the failure: parse_cddl returns
\* an error of that same kind, neither Unparseable nor Ok.
C2_MalformedIsFatal ==
    pc = "done" =>
        \A j \in 1..Len(parts) :
            BadAt(j) =>
                /\ parts[j].raises \in MalformedKinds
                /\ result.k = "Err"
                /\ result.kind = parts[j].raises

\* a malformed float literal in the second alternative of a choice, in a rule
\* after a well-formed one, and more text after it
C2_Witness ==
    /\ pc = "done"
    /\ BadAt(2)
    /\ Len(parts) > 2
    /\ parts[2].raises = "MalformedFloat"
    /\ result.k = "Err"
    /\ result.kind = "MalformedFloat"

(***************************************************************************)
(* uint_u64 on unsigned literals of every radix.                           *)
(***************************************************************************)
\* how many digits past the widest u64 of a radix the literals go
MaxExtraDigits == 1

\* the digits of u64::MAX in a radix
WidthOf(base) == IF base = 16 THEN 16 ELSE IF base = 2 THEN U64Bits ELSE 20

TopDigit(base) == IF base = 16 THEN "F" ELSE IF base = 2 THEN "1" ELSE "9"

Bases == {2, 10, 16}

\* 18446744073709551615 = 2^64 - 1, and the numbers around it
U64MaxDecimal ==
    <<"1", "8", "4", "4", "6", "7", "4", "4", "0", "7", "3", "7", "0", "9", "5",
      "5", "1", "6", "1">>

LitsOf(b) ==
    UNION {
        {[base |-> b, digits |-> Rep(TopDigit(b), n)],
         [base |-> b, digits |-> <<"1">> \o Rep("0", n - 1)],
         [base |-> b, digits |-> <<"1">> \o Rep("0", n - 2) \o Rep("1", IF n > 1 THEN 1 ELSE 0)]}
        : n \in 1..(WidthOf(b) + MaxExtraDigits)}

UintLits ==
    UNION {LitsOf(b) : b \in Bases}
    \cup {[base |-> 16, digits |-> Rep("0", n) \o Rep("f", 16)] : n \in 0..MaxExtraDigits}
    \cup {[base |-> 10, digits |-> U64MaxDecimal \o <<d>>] : d \in {"4", "5", "6", "9"}}

RadixPrefix(base) ==
    IF base = 16 THEN <<"0", "x">> ELSE IF base = 2 THEN <<"0", "b">> ELSE <<>>

LitText(lit) == RadixPrefix(lit.base) \o lit.digits

InitUint ==
    /\ input \in {LitText(lit) : lit \in UintLits}
    /\ pc = "uint_u64"
    /\ result = Null
    /\ ast = Null
    /\ rules = Null
    /\ parts = <<>>
    /\ cursor = 0

CallUintU64 ==
    /\ pc = "uint_u64"
    /\ result' = uint_u64(input, 1)
    /\ pc' = "done"
    /\ UNCHANGED <<input, ast, rules, parts, cursor>>

NextUint == CallUintU64

SpecUint == InitUint /\ [][NextUint]_vars

\* The exact value of a literal, on as many limbs as it takes.
RECURSIVE BigValue(_, _, _, _)
BigValue(digits, radix, j, acc) ==
    IF j > Len(digits) THEN acc
    ELSE LET r == MulAdd(acc, radix, DigitVal(digits[j]), 1)
         IN  IF r.carry = 0 THEN BigValue(digits, radix, j + 1, r.limbs)
             ELSE BigValue(digits, radix, j + 1, r.limbs \o <<r.carry>>)

ValueOf(lit) == BigValue(lit.digits, lit.base, 1, <<>>)

FitsU64(big) == Len(big) <= U64Limbs

AsU64(big) == [j \in 1..U64Limbs |-> IF j <= Len(big) THEN big[j] ELSE 0]

\* C3: uint_u64 returns the exact value of an unsigned literal of any radix
\* when the value is at most 2^64 - 1, and MalformedInteger when it is more;
\* it never wraps around or truncates.
C3_UintExactOrMalformed ==
    pc = "done" =>
        \A lit \in UintLits :
            input = LitText(lit) =>
                IF FitsU64(ValueOf(lit))
                THEN /\ result.k = "Ok"
                     /\ result.val = AsU64(ValueOf(lit))
                     /\ result.pos = Len(input) + 1
                ELSE /\ result.k = "Failure"
                     /\ result.kind = "MalformedInteger"

\* 0xFFFFFFFFFFFFFFFF has been read as u64::MAX, and a literal one digit
\* longer has been refused.
C3_Witness ==
    /\ pc = "done"
    /\ input = <<"0", "x">> \o Rep("F", 16)
    /\ result.k = "Ok"
    /\ result.val = USIZE_MAX
    /\ uint_u64(<<"0", "x">> \o Rep("F", 17), 1).k = "Failure"



(***************************************************************************)
(* The IVT (crate::ivt, not among the files at hand): nodes are tuples     *)
(* with the variant first.  A Rule node holds the name and the weak        *)
(* pointer, None until upgrade sets it to the Arc of the rule's node; an   *)
(* Arc is known by the number of the rule that allocated it.               *)
(***************************************************************************)
LiteralInt(n) == <<"Literal", <<"Int", n>>>>

LiteralText(t) == <<"Literal", <<"Text", t>>>>

LiteralBool(b) == <<"Literal", <<"Bool", b>>>>

PreludeType(t) == <<"PreludeType", t>>

\* Rule::new
RuleNew(name) == <<"Rule", name, Null>>

\* Rule::upgrade
upgrade(rule_ref, real_ref) == <<"Rule", rule_ref[2], Some(real_ref)>>

MapNode(members) == <<"Map", members>>

\* KeyValue::new
KeyValueNew(key, val, oc) == <<"KeyValue", key, val, oc>>

\* ivt::Occur, both limits as usize
IvtOccur(lower, upper) == <<"Occur", lower, upper>>

\* panic!, assert!, unimplemented! and unwrap on None unwind out of flatten
Panic(what, name) == <<"Panic", what, name>>

IsPanic(n) == n[1] = "Panic"

\* the first panic of a sequence of results, in the order they are computed
RECURSIVE FirstPanic(_, _)
FirstPanic(ns, j) ==
    IF j > Len(ns) THEN Null
    ELSE IF IsPanic(ns[j]) THEN ns[j]
    ELSE FirstPanic(ns, j + 1)

(***************************************************************************)
(* flatten.rs, pass 1: cddl::ast to ivt.  The syntax tree is the one of    *)
(* the cddl crate: <<"Type", type_choices>>, <<"Type1", type2, operator>>, *)
(* Type2 by variant, <<"Group", group_choices>>, <<"GroupChoice",          *)
(* group_entries>>, <<"ValueMemberKey", occur, member_key, entry_type>>,   *)
(* and the member keys <<"Bareword", ident>>, <<"Value", value>> and       *)
(* <<"Type1", t1, is_cut>>.                                                *)
(***************************************************************************)
\* every entry exactly once, whatever the occurrence
occur_once(oc) ==
    IvtOccur(U64(1), U64(1))

\* impl From<&Option<ast::Occur>> for Occur
OccurFrom(oc) ==
    IF ~IsSome(oc) THEN IvtOccur(U64(1), U64(1))
    ELSE IF oc[2][1] = "Optional" THEN IvtOccur(U64(0), U64(1))
    ELSE IF oc[2][1] = "ZeroOrMore" THEN IvtOccur(U64(0), USIZE_MAX)
    ELSE IF oc[2][1] = "OneOrMore" THEN IvtOccur(U64(1), USIZE_MAX)
    ELSE LET lower == IF IsSome(oc[2][2]) THEN oc[2][2][2] ELSE U64(0)
             upper == IF IsSome(oc[2][3]) THEN oc[2][3][2] ELSE USIZE_MAX
         IN  IvtOccur(lower, upper)

flatten_typename(name) ==
    CASE name = "any" -> PreludeType("Any")
      [] name = "bool" -> PreludeType("Bool")
      [] name = "false" -> LiteralBool(FALSE)
      [] name = "true" -> LiteralBool(TRUE)
      [] name = "int" -> PreludeType("Int")
      [] name = "uint" -> PreludeType("Uint")
      [] name = "tstr" -> PreludeType("Tstr")
      [] OTHER -> RuleNew(name)

RECURSIVE flatten_type(_)
RECURSIVE flatten_type1(_)

flatten_memberkey(mk) ==
    IF mk[1] = "Bareword" THEN LiteralText(mk[2])
    ELSE IF mk[1] = "Type1" THEN flatten_type1(mk[2])
    ELSE Panic("not implemented", "")

flatten_vmke(vmke) ==
    With(OccurFrom(vmke[2]), LAMBDA oc :
        IF ~IsSome(vmke[3]) THEN Panic("called Option::unwrap() on a None value", "")
        ELSE With(flatten_memberkey(vmke[3][2]), LAMBDA key :
                 IF IsPanic(key) THEN key
                 ELSE With(flatten_type(vmke[4]), LAMBDA val :
                          IF IsPanic(val) THEN val
                          ELSE KeyValueNew(key, val, oc))))

flatten_groupentry(group_entry) ==
    IF group_entry[1] = "ValueMemberKey" THEN flatten_vmke(group_entry)
    ELSE Panic("not implemented", "")

flatten_map(g) ==
    IF Len(g[2]) # 1 THEN Panic("assertion failed: group.group_choices.len() == 1", "")
    ELSE With(g[2][1][2], LAMBDA entries :
         With([j \in 1..Len(entries) |-> flatten_groupentry(entries[j])], LAMBDA nodes :
         With(FirstPanic(nodes, 1), LAMBDA p :
             IF p # Null THEN p ELSE MapNode(nodes))))

flatten_type2(ty2) ==
    CASE ty2[1] = "UintValue" -> LiteralInt(ty2[2])
      [] ty2[1] = "TextValue" -> LiteralText(ty2[2])
      [] ty2[1] = "Typename" -> flatten_typename(ty2[2])
      [] ty2[1] = "Map" -> flatten_map(ty2[2])
      [] OTHER -> Panic("not implemented", "")

flatten_type1(ty1) ==
    flatten_type2(ty1[2])

flatten_type(t) ==
    IF Len(t[2]) # 1 THEN Panic("assertion failed: ty.type_choices.len() == 1", "")
    ELSE flatten_type1(t[2][1])

flatten_typerule(typerule) ==
    [name |-> typerule[2], node |-> flatten_type(typerule[3])]

\* the pair (name, Arc::new(node)), or the panic
flatten_rule(r) ==
    IF r[1] = "Type" THEN flatten_typerule(r)
    ELSE [name |-> r[2], node |-> Panic("not implemented", "")]

(***************************************************************************)
(* flatten.rs, pass 2: the weak pointers of the by-name references.        *)
(* rules is RulesByName: name -> [id, node], id being the Arc.             *)
(***************************************************************************)
\* a closure that leaves every node as it is
leave_rule_ref(node, rs) ==
    node

\* the closure of replace_rule_refs, run against one node
replace_rule_ref(node, rs) ==
    IF node[1] = "Rule"
    THEN IF node[2] \notin DOMAIN rs
         THEN Panic("tried to access nonexistent rule", node[2])
         ELSE upgrade(node, rs[node[2]].id)
    ELSE node

\* Descend recursively into a tree of Nodes, running the closure against
\* each: the function first, then the children in order.
RECURSIVE mutate_node_tree(_, _)
mutate_node_tree(node, rs) ==
    With(replace_rule_ref(node, rs), LAMBDA n :
        CASE IsPanic(n) -> n
          [] n[1] \in {"Literal", "PreludeType", "Rule"} -> n
          [] n[1] = "Choice" ->
             With([j \in 1..Len(n[2]) |-> mutate_node_tree(n[2][j], rs)], LAMBDA options :
             With(FirstPanic(options, 1), LAMBDA p :
                 IF p # Null THEN p ELSE <<"Choice", options>>))
          [] n[1] = "Map" ->
             With(
                     [j \in 1..Len(n[2]) |->
                         With(n[2][j], LAMBDA kv :
                         With(mutate_node_tree(kv[2], rs), LAMBDA key :
                             IF IsPanic(key) THEN key
                             ELSE With(mutate_node_tree(kv[3], rs), LAMBDA val :
                                      IF IsPanic(val) THEN val
                                      ELSE KeyValueNew(key, val, kv[4]))))], LAMBDA members :
             With(FirstPanic(members, 1), LAMBDA p :
                 IF p # Null THEN p ELSE MapNode(members)))
          [] OTHER -> Panic("not implemented", ""))

\* every rule name of the syntax trees, in the order of BTreeMap<String, _>
RuleNames == <<"a", "b">>

\* rules.values(): the roots in key order
Roots(rs) == SelectSeq(RuleNames, LAMBDA n : n \in DOMAIN rs)

\* an insertion that keeps the entry the name already has
insert_if_absent(rs, name, arc) ==
    [n \in (DOMAIN rs) \cup {name} |-> IF n \in DOMAIN rs THEN rs[n] ELSE arc]

\* BTreeMap::insert through collect(): a later rule of the same name
\* takes the place of the earlier one
Insert(rs, name, arc) ==
    [n \in (DOMAIN rs) \cup {name} |-> IF n = name THEN arc ELSE rs[n]]

(***************************************************************************)
(* flatten on syntax trees of up to MaxRules rules.  The rules are named   *)
(* a and b; c is a name no rule defines.                                   *)
(***************************************************************************)
\* how many rules a syntax tree has
MaxRules == 2

Type1Of(ty2) == <<"Type1", ty2, Null>>

\* a type with the given alternatives
TypeOf(ty2s) == <<"Type", [j \in 1..Len(ty2s) |-> Type1Of(ty2s[j])]>>

Typename(name) == <<"Typename", name>>

Named1(name) == TypeOf(<<Typename(name)>>)

\* a type of one type1 with a range or control operator and its operand
Operated(ty2, op, operand) == <<"Type", << <<"Type1", ty2, Some(<<op, operand>>)>> >> >>

Entry(oc, member_key, entry_type) ==
    <<"ValueMemberKey", oc, member_key, entry_type>>

GroupOf(choices) ==
    <<"Group", [j \in 1..Len(choices) |-> <<"GroupChoice", choices[j]>>]>>

MapOf(entries) == TypeOf(<< <<"Map", GroupOf(<<entries>>)>> >>)

Bareword(name) == Some(<<"Bareword", name>>)

\* a type1 key written with "=>" alone
KeyType1(ty2) == Some(<<"Type1", Type1Of(ty2), FALSE>>)

\* a type1 key written with "^ =>"
KeyType1Cut(ty2) == Some(<<"Type1", Type1Of(ty2), TRUE>>)

ValueKey(v) == Some(<<"Value", v>>)

Exact(lower, upper) == Some(<<"Exact", lower, upper>>)

PreludeNames ==
    {"any", "bool", "int", "uint", "nint", "tstr", "bstr", "float", "null"}

TypeNames == PreludeNames \cup {"true", "false", "a", "b", "c"}

MapTypes ==
    {MapOf(<<>>),
     MapOf(<<Entry(Null, Bareword("k"), Named1("int")),
             Entry(Some(<<"Optional">>), KeyType1(Typename("a")), Named1("b"))>>),
     MapOf(<<Entry(Some(<<"ZeroOrMore">>), KeyType1(Typename("tstr")), Named1("any")),
             Entry(Exact(Some(U64(2)), Null), KeyType1(<<"UintValue", 1>>),
                   Named1("true"))>>),
     MapOf(<<Entry(Null, Bareword("k"), Named1("int")),
             Entry(Null, ValueKey(<<"Text", "v">>), Named1("tstr"))>>),
     MapOf(<<Entry(Some(<<"OneOrMore">>), Bareword("k"), Named1("c"))>>),
     MapOf(<<Entry(Null, Bareword("k"),
                   TypeOf(<<Typename("int"), Typename("tstr")>>))>>),
     MapOf(<<Entry(Null, KeyType1(Typename("tstr")), Named1("int")),
             Entry(Null, KeyType1Cut(Typename("tstr")), Named1("int"))>>),
     MapOf(<<Entry(Null, Null, Named1("int"))>>),
     MapOf(<< <<"TypeGroupname", "a">> >>),
     MapOf(<< <<"InlineGroup", Null, GroupOf(<< <<>> >>)>> >>),
     TypeOf(<< <<"Map", GroupOf(<< <<Entry(Null, Bareword("k"), Named1("int"))>>,
                                   <<Entry(Null, Bareword("j"), Named1("tstr"))>> >>)>> >>)}

TypePool ==
    {Named1(n) : n \in TypeNames}
    \cup {TypeOf(<< <<"UintValue", 1>> >>), TypeOf(<< <<"TextValue", "t">> >>)}
    \cup {TypeOf(<<Typename("int"), Typename("tstr")>>),
          TypeOf(<<Typename("a"), <<"TextValue", "t">>, Typename("b")>>)}
    \cup {TypeOf(<< <<"Array", GroupOf(<< <<>> >>)>> >>)}
    \cup {TypeOf(<< <<"IntValue", -1>> >>), TypeOf(<< <<"FloatValue", "1.5">> >>),
          TypeOf(<< <<"UTF8ByteString", "x">> >>)}
    \cup {Operated(<<"UintValue", 1>>, <<"RangeOp", TRUE>>, <<"UintValue", 9>>),
          Operated(<<"UintValue", 1>>, <<"RangeOp", FALSE>>, <<"UintValue", 9>>),
          Operated(Typename("tstr"), <<"CtlOp", "size">>, <<"UintValue", 4>>),
          Operated(Typename("b"), <<"CtlOp", "size">>, <<"UintValue", 4>>)}
    \cup MapTypes

RulePool ==
    {<<"Type", "a", t>> : t \in TypePool}
    \cup {<<"Type", "b", t>> :
            t \in {Named1("a"), Named1("b"), Named1("c"), Named1("int"),
                   MapOf(<<Entry(Null, KeyType1(Typename("b")), Named1("a"))>>)}}
    \cup {<<"Group", "b", <<"ValueMemberKey", Null, Bareword("k"), Named1("int")>>>>}

Asts == {<<"CDDL", rs>> : rs \in UNION {[1..n -> RulePool] : n \in 0..MaxRules}}

InitFlatten ==
    /\ ast \in Asts
    /\ pc = "flatten_rule"
    /\ rules = <<>>
    /\ cursor = 0
    /\ result = Null
    /\ input = <<>>
    /\ parts = <<>>

\* pass 1, one rule: flatten_rule and the insertion into the mapping
FlattenRule ==
    /\ pc = "flatten_rule"
    /\ cursor < Len(ast[2])
    /\ LET fr == flatten_rule(ast[2][cursor + 1])
       IN  IF IsPanic(fr.node)
           THEN /\ pc' = "panic"
                /\ result' = fr.node
                /\ UNCHANGED <<rules, cursor>>
           ELSE /\ rules' = Insert(rules, fr.name, [id |-> cursor + 1, node |-> fr.node])
                /\ cursor' = cursor + 1
                /\ UNCHANGED <<pc, result>>
    /\ UNCHANGED <<input, ast, parts>>

\* collect() is done: replace_rule_refs(&rules) is called
CallReplaceRuleRefs ==
    /\ pc = "flatten_rule"
    /\ cursor = Len(ast[2])
    /\ pc' = "replace_rule_refs"
    /\ cursor' = 0
    /\ UNCHANGED <<input, ast, parts, rules, result>>

\* pass 2, one root: mutate_node_tree with the upgrading closure
ReplaceRuleRefs ==
    /\ pc = "replace_rule_refs"
    /\ cursor < Len(Roots(rules))
    /\ LET root == Roots(rules)[cursor + 1]
           tree == mutate_node_tree(rules[root].node, rules)
       IN  IF IsPanic(tree)
           THEN /\ pc' = "panic"
                /\ result' = tree
                /\ UNCHANGED <<rules, cursor>>
           ELSE /\ rules' = [rules EXCEPT ![root].node = tree]
                /\ cursor' = cursor + 1
                /\ UNCHANGED <<pc, result>>
    /\ UNCHANGED <<input, ast, parts>>

\* Ok(rules)
FlattenOk ==
    /\ pc = "replace_rule_refs"
    /\ cursor = Len(Roots(rules))
    /\ pc' = "done"
    /\ result' = <<"Ok">>
    /\ UNCHANGED <<input, ast, parts, rules, cursor>>

NextFlatten ==
    \/ FlattenRule
    \/ CallReplaceRuleRefs
    \/ ReplaceRuleRefs
    \/ FlattenOk

SpecFlatten == InitFlatten /\ [][NextFlatten]_vars

\* the Rule nodes reachable from a node through Choice options and Map
\* keys and values
RECURSIVE RuleRefsOf(_)
RuleRefsOf(node) ==
    CASE node[1] = "Rule" -> {node}
      [] node[1] = "Choice" -> UNION {RuleRefsOf(node[2][j]) : j \in 1..Len(node[2])}
      [] node[1] = "Map" ->
         UNION {RuleRefsOf(node[2][j][2]) \cup RuleRefsOf(node[2][j][3]) :
                    j \in 1..Len(node[2])}
      [] OTHER -> {}

\* the number of the last rule of the syntax tree with this name
LastRuleNamed(name) ==
    CHOOSE j \in 1..Len(ast[2]) :
        /\ ast[2][j][2] = name
        /\ \A h \in (j + 1)..Len(ast[2]) : ast[2][h][2] # name

\* C4: after flatten returns Ok, every Rule reference reachable from any
\* rule root through Choice options and Map keys and values points to the
\* node stored in the schema under the reference's name, whether that rule
\* comes before or after the referring rule; pass 2 runs only when every
\* rule of pass 1 is in the mapping.
C4_RefsBackPatched ==
    /\ pc \in {"replace_rule_refs", "done"} =>
        /\ DOMAIN rules = {ast[2][j][2] : j \in 1..Len(ast[2])}
        /\ \A n \in DOMAIN rules : rules[n].id = LastRuleNamed(n)
    /\ (pc = "done" /\ result[1] = "Ok") =>
        \A n \in DOMAIN rules :
            \A r \in RuleRefsOf(rules[n].node) :
                /\ r[2] \in DOMAIN rules
                /\ r[3] = Some(rules[r[2]].id)

\* rule a, a map with a reference to itself as a key and a reference to the
\* later rule b as a value, both pointing to the stored nodes
C4_Witness ==
    /\ pc = "done"
    /\ result[1] = "Ok"
    /\ Len(ast[2]) = 2
    /\ ast[2][1][2] = "a"
    /\ ast[2][2][2] = "b"
    /\ rules["a"].node[1] = "Map"
    /\ <<"Rule", "a", Some(1)>> \in RuleRefsOf(rules["a"].node)
    /\ <<"Rule", "b", Some(2)>> \in RuleRefsOf(rules["a"].node)
    /\ <<"Rule", "a", Some(1)>> \in RuleRefsOf(rules["b"].node)

\* the names the trees of the mapping refer to and the mapping does not hold
UnknownRefs ==
    UNION {{r[2] : r \in RuleRefsOf(rules[n].node)} : n \in DOMAIN rules}
        \ DOMAIN rules

\* the panic, if any, came from pass 1
PanicInPass1 ==
    pc = "panic" /\ result[2] # "tried to access nonexistent rule"

\* flatten is over and pass 1 put every rule in the mapping
Pass2Over ==
    pc \in {"done", "panic"} /\ ~PanicInPass1

\* C5: when a rule refers by name to a rule the schema does not define,
\* flatten returns the error value UnknownRule(name) for that name; it does
\* not panic and it does not return a schema.
C5_UnknownRuleIsError ==
    (Pass2Over /\ UnknownRefs # {}) =>
        /\ pc = "done"
        /\ result[1] = "Err"
        /\ result[2][1] = "UnknownRule"
        /\ result[2][2] \in UnknownRefs

\* rule j of the syntax tree made flatten_rule panic
PanickedAt(j) == PanicInPass1 /\ cursor = j - 1

\* rule j is flattened and its node is the one stored under its name,
\* before pass 2 touches it
StoredAt(j) ==
    /\ pc = "flatten_rule"
    /\ cursor >= j
    /\ rules[ast[2][j][2]].id = j

\* the prelude table
PreludeOf(name) ==
    CASE name = "any" -> "Any"
      [] name = "bool" -> "Bool"
      [] name = "int" -> "Int"
      [] name = "uint" -> "Uint"
      [] name = "nint" -> "Nint"
      [] name = "tstr" -> "Tstr"
      [] name = "bstr" -> "Bstr"
      [] name = "float" -> "Float"
      [] name = "null" -> "Null"

\* C6: flattening a typename yields PreludeType(t) for every name of the
\* prelude table (any, bool, int, uint, nint, tstr, bstr, float, null),
\* Literal(Bool(b)) for true and false, and an unresolved Rule reference
\* carrying the name for every other name.
C6_TypenameTable ==
    \A j \in 1..Len(ast[2]) : \A name \in TypeNames :
        ast[2][j] = <<"Type", ast[2][j][2], Named1(name)>> =>
            /\ ~PanickedAt(j)
            /\ StoredAt(j) =>
                rules[ast[2][j][2]].node =
                    (IF name \in PreludeNames THEN PreludeType(PreludeOf(name))
                     ELSE IF name \in {"true", "false"} THEN LiteralBool(name = "true")
                     ELSE RuleNew(name))

\* a type rule whose alternatives flatten, each on its own
AltsFlatten(j) ==
    /\ ast[2][j][1] = "Type"
    /\ \A k \in 1..Len(ast[2][j][3][2]) : ~IsPanic(flatten_type1(ast[2][j][3][2][k]))

\* C9: flattening a type with n > 1 alternatives yields a Choice node whose
\* options are the n flattened alternatives in source order; a type with
\* one alternative is flattened to the node of that alternative, with no
\* Choice around it.
C9_ChoiceOfAlternatives ==
    \A j \in 1..Len(ast[2]) :
        AltsFlatten(j) =>
            LET alts == ast[2][j][3][2]
            IN  /\ ~PanickedAt(j)
                /\ StoredAt(j) =>
                    rules[ast[2][j][2]].node =
                        (IF Len(alts) > 1
                         THEN <<"Choice", [k \in 1..Len(alts) |-> flatten_type1(alts[k])]>>
                         ELSE flatten_type1(alts[1]))

\* a type rule that is one map of one group choice whose entries all have a
\* member key and an entry type that flattens
PlainMap(j) ==
    /\ ast[2][j][1] = "Type"
    /\ Len(ast[2][j][3][2]) = 1
    /\ ast[2][j][3][2][1][2][1] = "Map"
    /\ Len(ast[2][j][3][2][1][2][2][2]) = 1
    /\ \A e \in 1..Len(ast[2][j][3][2][1][2][2][2][1][2]) :
        LET ge == ast[2][j][3][2][1][2][2][2][1][2][e]
        IN  /\ ge[1] = "ValueMemberKey"
            /\ IsSome(ge[3])
            /\ ge[3][2][1] = "Type1" => ~IsPanic(flatten_type1(ge[3][2][2]))
            /\ ~IsPanic(flatten_type(ge[4]))

\* the key node the three kinds of member key stand for
KeyNodeOf(mk) ==
    CASE mk[1] = "Bareword" -> LiteralText(mk[2])
      [] mk[1] = "Value" -> <<"Literal", mk[2]>>
      [] mk[1] = "Type1" -> flatten_type1(mk[2])

\* C10: flattening a map produces one KeyValue per group entry in source
\* order, with the key Literal(Text(name)) for a bareword key, Literal(v)
\* for a value key and the flattened type for a type1 key, and with the
\* flattened entry type as the value.
C10_MapMembers ==
    \A j \in 1..Len(ast[2]) :
        PlainMap(j) =>
            LET entries == ast[2][j][3][2][1][2][2][2][1][2]
            IN  /\ ~PanickedAt(j)
                /\ StoredAt(j) =>
                    LET node == rules[ast[2][j][2]].node
                    IN  /\ node[1] = "Map"
                        /\ Len(node[2]) = Len(entries)
                        /\ \A e \in 1..Len(entries) :
                            /\ node[2][e][2] = KeyNodeOf(entries[e][3][2])
                            /\ node[2][e][3] = flatten_type(entries[e][4])

\* two entries with type1 keys that differ in the cut of the key and in
\* nothing else
DifferInCutOnly(ge1, ge2) ==
    /\ ge1[3][2][1] = "Type1"
    /\ ge2[3][2][1] = "Type1"
    /\ ge1[3][2][2] = ge2[3][2][2]
    /\ ge1[3][2][3] # ge2[3][2][3]
    /\ ge1[2] = ge2[2]
    /\ ge1[4] = ge2[4]

\* C11: the cut flag of a member key is tracked through flattening: the
\* KeyValue of a map member records whether its key was cut, so two members
\* that differ only in cut flatten to distinguishable KeyValues.
C11_CutTracked ==
    \A j \in 1..Len(ast[2]) :
        (PlainMap(j) /\ StoredAt(j)) =>
            LET entries == ast[2][j][3][2][1][2][2][2][1][2]
                node == rules[ast[2][j][2]].node
            IN  \A e, f \in 1..Len(entries) :
                    DifferInCutOnly(entries[e], entries[f]) => node[2][e] # node[2][f]

\* rule j holds a construct flatten has no arm for: flatten_rule reaches
\* unimplemented!() or the unwrap of a missing member key
UnsupportedAt(j) ==
    LET node == flatten_rule(ast[2][j]).node
    IN  /\ IsPanic(node)
        /\ node[2] \in {"not implemented", "called Option::unwrap() on a None value"}

\* C12: flatten reports every failure as a returned error value and never
\* panics: a construct the flattener does not support (a group-assignment
\* rule, a group name or inline group inside a map, an array, a value
\* member key, a negative-integer, float or bytes literal) gives the error
\* UnsupportedConstruct.
C12_UnsupportedIsError ==
    \A j \in 1..Len(ast[2]) :
        UnsupportedAt(j) =>
            /\ ~PanickedAt(j)
            /\ pc = "done" =>
                /\ result[1] = "Err"
                /\ result[2][1] = "UnsupportedConstruct"

(***************************************************************************)
(* The occurrence of a group entry, from the text to the IVT: the parser's *)
(* occur on the text, then Occur::from on the syntax tree's occurrence.    *)
(***************************************************************************)
\* the largest small limit of a numbered occurrence
MaxOccur == 3

Digits10 == <<"0", "1", "2", "3", "4", "5", "6", "7", "8", "9">>

RECURSIVE Decimal(_)
Decimal(n) ==
    IF n < 10 THEN <<Digits10[n + 1]>>
    ELSE Decimal(n \div 10) \o <<Digits10[(n % 10) + 1]>>

\* the limits a text may give: small ones, usize::MAX, and one past u64
Limits ==
    {[text |-> Decimal(n), val |-> U64(n), fits |-> TRUE] : n \in 0..MaxOccur}
    \cup {[text |-> U64MaxDecimal \o <<"5">>, val |-> USIZE_MAX, fits |-> TRUE],
          [text |-> Nines, val |-> USIZE_MAX, fits |-> FALSE]}

NoLimit == [text |-> <<>>, val |-> U64(0), fits |-> TRUE]

\* the forms of  occur = [uint] "*" [uint] / "+" / "?"  and no occurrence
OccurForms ==
    {<<form, NoLimit, NoLimit>> : form \in {"absent", "?", "+", "*"}}
    \cup {<<"n*", lo, NoLimit>> : lo \in Limits}
    \cup {<<"*m", NoLimit, hi>> : hi \in Limits}
    \cup {<<"n*m", lo, hi>> : lo \in Limits, hi \in Limits}

OccurText(form) ==
    CASE form[1] = "absent" -> <<>>
      [] form[1] \in {"?", "+"} -> <<form[1]>>
      [] OTHER -> form[2].text \o <<"*">> \o form[3].text

\* The occurrence as the syntax tree handed to flatten holds it: an absent
\* limit of Exact is None, or the value the parser has put in its place.
AstOccurs(parsed) ==
    IF ~IsSome(parsed) THEN {Null}
    ELSE IF parsed[2][1] # "Numbered" THEN {parsed}
    ELSE {Exact(lower, upper) :
            lower \in {Some(parsed[2][2])}
                        \cup (IF parsed[2][2] = U64(0) THEN {Null} ELSE {}),
            upper \in {Some(parsed[2][3])}
                        \cup (IF parsed[2][3] = USIZE_MAX THEN {Null} ELSE {})}

InitOccur ==
    /\ parts \in OccurForms
    /\ input = OccurText(parts)
    /\ pc = "occur"
    /\ result = Null
    /\ ast = Null
    /\ rules = Null
    /\ cursor = 0

\* grpent: opt(terminated(occur, ws))
CallOccur ==
    /\ pc = "occur"
    /\ result' = opt(apply("occur", input, 1), 1)
    /\ IF IsOk(result')
       THEN \E a \in AstOccurs(result'.val) : ast' = a /\ pc' = "from"
       ELSE ast' = ast /\ pc' = "rejected"
    /\ UNCHANGED <<input, rules, parts, cursor>>

\* flatten_vmke: Occur::from(&vmke.occur)
CallOccurFrom ==
    /\ pc = "from"
    /\ result' = OccurFrom(ast)
    /\ pc' = "done"
    /\ UNCHANGED <<input, ast, rules, parts, cursor>>

NextOccur ==
    \/ CallOccur
    \/ CallOccurFrom

SpecOccur == InitOccur /\ [][NextOccur]_vars

\* C7: the flattener maps the occurrence of a group entry to (lower, upper):
\* absent to (1, 1), ? to (0, 1), * to (0, usize::MAX), + to (1, usize::MAX)
\* and n*m to (n, m), an absent n being 0 and an absent m usize::MAX.
C7_OccurrenceTable ==
    /\ pc = "rejected" => ~(parts[2].fits /\ parts[3].fits)
    /\ pc = "done" =>
        result =
            CASE parts[1] = "absent" -> IvtOccur(U64(1), U64(1))
              [] parts[1] = "?" -> IvtOccur(U64(0), U64(1))
              [] parts[1] = "*" -> IvtOccur(U64(0), USIZE_MAX)
              [] parts[1] = "+" -> IvtOccur(U64(1), USIZE_MAX)
              [] parts[1] = "n*" -> IvtOccur(parts[2].val, USIZE_MAX)
              [] parts[1] = "*m" -> IvtOccur(U64(0), parts[3].val)
              [] parts[1] = "n*m" -> IvtOccur(parts[2].val, parts[3].val)

\* 2* with the upper limit absent in the syntax tree becomes (2, usize::MAX)
C7_Witness ==
    /\ pc = "done"
    /\ parts[1] = "n*"
    /\ parts[2].val = U64(2)
    /\ ast = Exact(Some(U64(2)), Null)
    /\ result = IvtOccur(U64(2), USIZE_MAX)

\* C8: every occurrence of a schema produced by parsing and flattening has
\* lower <= upper, for every accepted occurrence text, the numbered form
\* n*m with arbitrary n and m included.
C8_LowerLeUpper ==
    pc = "done" => U64Le(result[2], result[3])

(***************************************************************************)
(* The parsers of single constructs, each called on texts put together     *)
(* from pieces, as the unit tests of parser.rs call them.  `parts` holds   *)
(* the pieces and the name of the parser the text is for.                  *)
(***************************************************************************)
\* the whitespace between a key and its mark: none, blanks, a comment
Gaps == {<<>>, <<" ">>, <<"\n">>, <<";", "c", "\n">>}

\* the whitespace after "^"
CutGaps == {<<>>, <<" ">>, <<"\t">>}

\* keys: identifiers, values, and a type that is neither
Keys ==
    {[text |-> <<"a">>, is |-> "ident"],
     [text |-> <<"t", "s", "t", "r">>, is |-> "ident"],
     [text |-> <<"1">>, is |-> "value"],
     [text |-> <<"\"", "k", "\"">>, is |-> "value"],
     [text |-> <<"{", "}">>, is |-> "type"]}

\* key S ":" / key S "=>" / key S "^" S "=>", and the text after it
MemberKeyTexts ==
    {m \in {[parser |-> "memberkey", key |-> key, mark |-> mark,
             text |-> key.text \o g
                        \o (IF mark = "^=>" THEN <<"^">> \o c ELSE <<>>)
                        \o (IF mark = ":" THEN <<":">> ELSE <<"=", ">">>)
                        \o <<" ", "b">>] :
                key \in Keys, g \in Gaps, c \in CutGaps, mark \in {":", "=>", "^=>"}} :
        m.key.is = "type" => m.mark # ":"}

\* identifiers
Idents == {<<"a">>, <<"t", "s", "t", "r">>, <<"f", "o", "o", "-", "b", "4", ".", "r">>}

\* what ends a group entry that is one identifier
EntryEnds == {<<>>, <<",">>, <<" ">>, <<")">>, <<" ", "}">>, <<"\n", "c">>}

\* group entries: an identifier and ":", an identifier and "=>", an
\* identifier alone, and entries that are no single identifier
GrpEntTexts ==
    {[parser |-> "grpent_val", id |-> id, follow |-> ":",
      text |-> id \o g \o <<":", " ", "b">>] : id \in Idents, g \in Gaps}
    \cup {[parser |-> "grpent_val", id |-> id, follow |-> "=>",
           text |-> id \o g \o <<"=", ">", " ", "b">>] : id \in Idents, g \in Gaps}
    \cup {[parser |-> "grpent_val", id |-> id, follow |-> "end",
           text |-> id \o e] : id \in Idents, e \in EntryEnds}
    \cup {[parser |-> "grpent_val", id |-> <<>>, follow |-> "other", text |-> x] :
            x \in {<<"1", "7">>, <<"(", "a", ")">>, <<"(", ")">>, <<"a", " ", "/", " ", "b">>,
                   <<"h", "'", "6", "1", "'">>, <<"h", "'", "6", "'">>,
                   <<"\"", "k", "\"", ":", " ", "1">>, <<"~", "a">>, <<":", "a">>}}

\* right-hand sides of a rule: parenthesized groups and types
RightSides ==
    {[rhs |-> "group", text |-> <<"(", "b", "a", "r", ")">>],
     [rhs |-> "group", text |-> <<"(", "c", ":", " ", "i", "n", "t", ")">>],
     [rhs |-> "group", text |-> <<"(", ")">>],
     [rhs |-> "group", text |-> <<"(", " ", "a", ",", " ", "b", " ", ")">>],
     [rhs |-> "type", text |-> <<"b", "a", "r">>],
     [rhs |-> "type", text |-> <<"1", " ", "/", " ", "2">>],
     [rhs |-> "type", text |-> <<"{", " ", "a", ":", " ", "t", "s", "t", "r", " ", "}">>]}

\* name S "=" S right-hand side
RuleTexts ==
    {[parser |-> "rule", rhs |-> r.rhs,
      text |-> <<"f", "o", "o">> \o g1 \o <<"=">> \o g2 \o r.text] :
        r \in RightSides, g1 \in {<<>>, <<" ">>}, g2 \in {<<>>, <<" ">>}}

\* how long the texts ident is called on are
MaxIdentLen == 4

\* every text of up to MaxIdentLen of these characters, and two of the
\* texts of test_ident and test_type1
IdentTexts ==
    {[parser |-> "ident", text |-> x] :
        x \in UNION {[1..n -> {"a", "1", ".", "-", "@", " "}] : n \in 0..MaxIdentLen}
               \cup {<<"m", "i", "n", ".", ".", "m", "a", "x">>, <<"a", ".", ".", "b">>}}

\* how many characters stand between the quotes of a text literal
MaxTextLen == 2

\* characters at the ends and inside of the ranges of SCHAR, and
\* characters outside them
TextChars ==
    {" ", "!", "#", "A", "X", "Y", "Z", "[", "]", "~", "U+80", "U+306E",
     "U+10FFD", "U+10FFE", "U+10FFFD", "\t", "\n", "U+7F"}

\* %x22 *SCHAR %x22 without escapes
TextLiterals ==
    {[parser |-> "text_literal", body |-> b, text |-> <<"\"">> \o b \o <<"\"">>] :
        b \in UNION {[1..n -> TextChars] : n \in 0..MaxTextLen}}

\* how many characters stand between the quotes of a hex byte string
MaxHexLen == 4

\* h'...' with hex digits, whitespace and a character that is no hex digit
HexLiterals ==
    {[parser |-> "bytestring", body |-> b, text |-> <<"h", "'">> \o b \o <<"'">>] :
        b \in UNION {[1..n -> {"6", "1", "a", "F", " ", "\n", "g"}] : n \in 0..MaxHexLen}}

\* what follows the digits of a number: nothing, a fraction, an exponent,
\* a fraction and an exponent
NumberTails ==
    {[is |-> "none", text |-> <<>>],
     [is |-> "frac", text |-> <<".", "1">>],
     [is |-> "frac", text |-> <<".", "2", "5">>],
     [is |-> "exp", text |-> <<"e", "9", "9">>],
     [is |-> "exp", text |-> <<"e", "+", "9">>],
     [is |-> "exp", text |-> <<"e", "-", "9">>],
     [is |-> "both", text |-> <<".", "1", "e", "9">>],
     [is |-> "both", text |-> <<".", "1", "e", "-", "9">>]}

\* ["-"] ["0b" / "0x"] digits and a tail
NumberTexts ==
    {[parser |-> "float_or_int", base |-> n.base, digits |-> n.digits, tail |-> tl,
      text |-> sign \o RadixPrefix(n.base) \o n.digits \o tl.text] :
        n \in {[base |-> 2, digits |-> <<"1">>], [base |-> 2, digits |-> <<"1", "0", "1">>],
               [base |-> 16, digits |-> <<"1">>], [base |-> 16, digits |-> <<"f", "F">>],
               [base |-> 10, digits |-> <<"1">>], [base |-> 10, digits |-> <<"2", "0">>]},
        tl \in NumberTails, sign \in {<<>>, <<"-">>}}

\* the decimal digits of the magnitudes around the limits of i64 and u64
LimitDecimals ==
    [m \in {"2^63-1", "2^63", "2^64-1", "2^64"} |->
        CASE m = "2^63-1" ->
             <<"9", "2", "2", "3", "3", "7", "2", "0", "3", "6", "8", "5", "4",
               "7", "7", "5", "8", "0", "7">>
          [] m = "2^63" ->
             <<"9", "2", "2", "3", "3", "7", "2", "0", "3", "6", "8", "5", "4",
               "7", "7", "5", "8", "0", "8">>
          [] m = "2^64-1" -> U64MaxDecimal \o <<"5">>
          [] OTHER -> U64MaxDecimal \o <<"6">>]

\* the digits of a magnitude in a radix
LimitDigits(m, base) ==
    CASE m \in {"0", "1"} -> <<m>>
      [] base = 10 -> LimitDecimals[m]
      [] m = "2^63-1" -> IF base = 16 THEN <<"7">> \o Rep("f", 15) ELSE Rep("1", U64Bits - 1)
      [] m = "2^63" -> IF base = 16 THEN <<"8">> \o Rep("0", 15) ELSE <<"1">> \o Rep("0", U64Bits - 1)
      [] m = "2^64-1" -> IF base = 16 THEN Rep("F", 16) ELSE Rep("1", U64Bits)
      [] OTHER -> IF base = 16 THEN <<"1">> \o Rep("0", 16) ELSE <<"1">> \o Rep("0", U64Bits)

\* ["-"] ["0b" / "0x"] digits: the integers 0, 1 and those around the
\* limits of i64 and u64, with and without the sign
LimitTexts ==
    {[parser |-> "float_or_int", base |-> b, digits |-> LimitDigits(m, b), mag |-> m,
      neg |-> sign # <<>>, tail |-> [is |-> "none", text |-> <<>>],
      text |-> sign \o RadixPrefix(b) \o LimitDigits(m, b)] :
        m \in {"0", "1", "2^63-1", "2^63", "2^64-1", "2^64"}, b \in Bases,
        sign \in {<<>>, <<"-">>}}

Calls ==
    MemberKeyTexts \cup GrpEntTexts \cup RuleTexts \cup IdentTexts \cup TextLiterals
        \cup HexLiterals \cup NumberTexts \cup LimitTexts

InitCalls ==
    /\ parts \in Calls
    /\ input = parts.text
    /\ pc = "call"
    /\ result = Null
    /\ ast = Null
    /\ rules = Null
    /\ cursor = 0

\* memberkey(input)
CallMemberkey ==
    /\ pc = "call"
    /\ parts.parser = "memberkey"
    /\ result' = apply("memberkey", input, 1)
    /\ pc' = "called"
    /\ UNCHANGED <<input, ast, rules, parts, cursor>>

\* grpent_val(input)
CallGrpentVal ==
    /\ pc = "call"
    /\ parts.parser = "grpent_val"
    /\ result' = apply("grpent_val", input, 1)
    /\ pc' = "called"
    /\ UNCHANGED <<input, ast, rules, parts, cursor>>

\* rule(input)
CallRule ==
    /\ pc = "call"
    /\ parts.parser = "rule"
    /\ result' = apply("rule", input, 1)
    /\ pc' = "called"
    /\ UNCHANGED <<input, ast, rules, parts, cursor>>

\* ident(input)
CallIdent ==
    /\ pc = "call"
    /\ parts.parser = "ident"
    /\ result' = ident(input, 1)
    /\ pc' = "called"
    /\ UNCHANGED <<input, ast, rules, parts, cursor>>

\* text_literal(input)
CallTextLiteral ==
    /\ pc = "call"
    /\ parts.parser = "text_literal"
    /\ result' = text_literal(input, 1)
    /\ pc' = "called"
    /\ UNCHANGED <<input, ast, rules, parts, cursor>>

\* bytestring(input)
CallBytestring ==
    /\ pc = "call"
    /\ parts.parser = "bytestring"
    /\ result' = bytestring(input, 1)
    /\ pc' = "called"
    /\ UNCHANGED <<input, ast, rules, parts, cursor>>

\* float_or_int(input)
CallFloatOrInt ==
    /\ pc = "call"
    /\ parts.parser = "float_or_int"
    /\ result' = apply("float_or_int", input, 1)
    /\ pc' = "called"
    /\ UNCHANGED <<input, ast, rules, parts, cursor>>

NextCalls ==
    \/ CallMemberkey
    \/ CallGrpentVal
    \/ CallRule
    \/ CallIdent
    \/ CallTextLiteral
    \/ CallBytestring
    \/ CallFloatOrInt

SpecCalls == InitCalls /\ [][NextCalls]_vars

\* C13: the parser sets the cut flag of a member key to true for every
\* bareword key ("name :") and every value key ("value :"), to true for a
\* type1 key written with "^" before "=>", and to false for a type1 key
\* written with "=>" alone; whitespace around "^" does not change the flag.
C13_CutFlag ==
    (pc = "called" /\ parts.parser = "memberkey") =>
        /\ IsOk(result)
        /\ result.pos = Len(input) - 1
        /\ result.val[1] = "MemberKey"
        /\ result.val[2][1] =
              (IF parts.mark # ":" THEN "Type1"
               ELSE IF parts.key.is = "ident" THEN "Bareword"
               ELSE "Value")
        /\ result.val[3] = (parts.mark # "=>")

\* "k" with a line end, "^", a tab and "=>" after it: a type1 key, cut
C13_Witness ==
    /\ pc = "called"
    /\ parts.parser = "memberkey"
    /\ input = <<"\"", "k", "\"", "\n", "^", "\t", "=", ">", " ", "b">>
    /\ IsOk(result)
    /\ result.val[2][1] = "Type1"
    /\ result.val[3] = TRUE

\* the type that is the one type name
TypenameType(id) == <<"Type", << <<"Simple", <<"Typename", id>>>> >>>>

C15_ParenthesizedIsGroup ==
    (pc = "called" /\ parts.parser = "rule") =>
        /\ IsOk(result)
        /\ result.pos = Len(input) + 1
        /\ result.val[3][1] =
              (IF parts.rhs = "group" THEN "AssignGroup" ELSE "AssignType")

\* a text of the form EALPHA *( *("-" / ".") (EALPHA / DIGIT) ): it starts
\* with EALPHA, goes on with EALPHA, DIGIT, "-" and ".", and does not end
\* in "-" or "."
IsIdentText(p) ==
    /\ Len(p) >= 1
    /\ p[1] \in EAlpha
    /\ \A j \in 1..Len(p) : p[j] \in EAlpha \cup Digit \cup {"-", "."}
    /\ p[Len(p)] \notin {"-", "."}

\* C16: ident fails unless the input starts with a letter or one of "@",
\* "_", "$"; otherwise it consumes the longest prefix of the form
\* EALPHA *( *("-" / ".") (EALPHA / DIGIT) ), so the consumed text never
\* ends in "-" or "." and interior runs of "." are kept: min..max and a..b
\* are consumed whole.
C16_IdentLongestPrefix ==
    (pc = "called" /\ parts.parser = "ident") =>
        IF input = <<>> \/ input[1] \notin Alpha \cup {"@", "_", "$"}
        THEN ~IsOk(result)
        ELSE /\ IsOk(result)
             /\ result.val = SubSeq(input, 1, result.pos - 1)
             /\ IsIdentText(result.val)
             /\ \A n \in result.pos..Len(input) : ~IsIdentText(SubSeq(input, 1, n))

\* min..max is one identifier
C16_Witness ==
    /\ pc = "called"
    /\ parts.parser = "ident"
    /\ input = <<"m", "i", "n", ".", ".", "m", "a", "x">>
    /\ IsOk(result)
    /\ result.pos = 9
    /\ result.val = input

\* SCHAR without SESC, RFC 8610: %x20-21 / %x23-5B / %x5D-7E / %x80-10FFFD
RfcSChar(c) ==
    \/ CodeOf[c] \in 32..33
    \/ CodeOf[c] \in 35..91
    \/ CodeOf[c] \in 93..126
    \/ CodeOf[c] \in 128..1114109

\* C17: inside a double-quoted text literal every character of the SCHAR
\* ranges %x20-21, %x23-5B, %x5D-7E and %x80-10FFFD is accepted unescaped
\* and every other character that is no backslash escape is rejected: for
\* a string s of such characters, text_literal on '"' s '"' returns s.
C17_SCharRanges ==
    (pc = "called" /\ parts.parser = "text_literal") =>
        IF \A j \in 1..Len(parts.body) : RfcSChar(parts.body[j])
        THEN /\ IsOk(result)
             /\ result.pos = Len(input) + 1
             /\ result.val = CodesOf(parts.body)
        ELSE ~IsOk(result)

\* the payload without its whitespace
HexDigitsOf(body) == SelectSeq(body, LAMBDA c : c \notin {" ", "\n"})

\* the bytes an even number of hex digits denote
HexBytes(digits) ==
    [j \in 1..(Len(digits) \div 2) |->
        16 * DigitVal(digits[2 * j - 1]) + DigitVal(digits[2 * j])]

\* C18: for a hex byte-string literal h'...', whitespace inside the quotes
\* is ignored and the result is the bytes the hex digits denote; a payload
\* with an odd number of hex digits, or with a character that is no hex
\* digit, makes the parse fail with a ParseError of kind MalformedHex.
C18_HexBytesOrMalformedHex ==
    (pc = "called" /\ parts.parser = "bytestring") =>
        LET digits == HexDigitsOf(parts.body)
        IN  IF (\A j \in 1..Len(digits) : digits[j] \in HexDigit) /\ Len(digits) % 2 = 0
            THEN /\ IsOk(result)
                 /\ result.pos = Len(input) + 1
                 /\ result.val = HexBytes(digits)
            ELSE /\ ~IsOk(result)
                 /\ result.kind = "MalformedHex"

\* a number with a radix prefix and a fraction or an exponent after its digits
RadixWithTail ==
    /\ pc = "called"
    /\ parts.parser = "float_or_int"
    /\ parts.base \in {2, 16}
    /\ parts.tail.is # "none"

\* C19, as the specification states it: a number literal with a "0b" or
\* "0x" radix prefix that is followed by a fraction or an exponent is
\* rejected with a MalformedInteger error; it is never accepted as an
\* integer or a float (0b1e99, 0b1.1, 0x1e99, 0x1.1).
C19_RadixTailIsMalformedInteger ==
    RadixWithTail =>
        /\ ~IsOk(result)
        /\ result.kind = "MalformedInteger"

\* the value of hex digits
RECURSIVE HexValue(_)
HexValue(digits) ==
    IF digits = <<>> THEN 0
    ELSE 16 * HexValue(SubSeq(digits, 1, Len(digits) - 1)) + DigitVal(digits[Len(digits)])

\* the hex digits at the start of a text
HexRun(t) == SubSeq(t, 1, RunEnd(HexDigit, t, 1) - 1)

\* C19, as the code has it: a "0b" number followed by a fraction or an
\* exponent, and a "0x" number followed by a fraction, is rejected with the
\* kind MalformedFloat and is never accepted.  After "0x", "e" and the
\* digits behind it are hex digits: 0x1e99 is the integer 7833, and a sign
\* after the "e" ends the integer in front of it.
C19_RadixTailIsMalformedFloat ==
    RadixWithTail =>
        IF parts.base = 2 \/ parts.tail.is \in {"frac", "both"}
        THEN /\ result.k = "Failure"
             /\ result.kind = "MalformedFloat"
        ELSE LET run == parts.digits \o HexRun(parts.tail.text)
                 neg == input[1] = "-"
             IN  /\ IsOk(result)
                 /\ result.val = <<(IF neg THEN "Nint" ELSE "Uint"), U64(HexValue(run))>>
                 /\ result.pos = (IF neg THEN 1 ELSE 0) + 2 + Len(run) + 1

\* 0b1.1 is rejected as a malformed float
C19_Witness ==
    /\ pc = "called"
    /\ parts.parser = "float_or_int"
    /\ input = <<"0", "b", "1", ".", "1">>
    /\ result.k = "Failure"
    /\ result.kind = "MalformedFloat"

(***************************************************************************)
(* slice_parse_cddl on texts put together from pieces, each with the same  *)
(* whitespace in front of it and behind it.                                *)
(***************************************************************************)
\* how many pieces a text is put together from
MaxSliceParts == 2

\* the whitespace around a piece: none, a blank, a blank and a comment
SliceGaps == {<<>>, <<" ">>, <<" ", ";", "c", "\n">>}

\* the whole rules, a rule with a malformed literal, and text that is no rule
SlicePieces ==
    {[kind |-> p.kind, raises |-> p.raises, text |-> p.text, gap |-> g] :
        p \in {q \in Pieces : \/ q.kind = "Rule"
                              \/ q.raises = "MalformedHex"
                              \/ q.text \in {<<"y">>, <<"=", " ", "1">>, <<";", "c">>}},
        g \in SliceGaps}

RECURSIVE Spaced(_)
Spaced(ps) ==
    IF ps = <<>> THEN <<>>
    ELSE ps[1].gap \o ps[1].text \o ps[1].gap \o Spaced(Tail(ps))

InitSlice ==
    /\ parts \in UNION {[1..n -> SlicePieces] : n \in 0..MaxSliceParts}
    /\ input = Spaced(parts)
    /\ pc = "slice_parse_cddl"
    /\ result = Null
    /\ ast = Null
    /\ rules = Null
    /\ cursor = 0

CallSliceParseCddl ==
    /\ pc = "slice_parse_cddl"
    /\ result' = slice_parse_cddl(input)
    /\ pc' = "sliced"
    /\ UNCHANGED <<input, ast, rules, parts, cursor>>

NextSlice == CallSliceParseCddl

SpecSlice == InitSlice /\ [][NextSlice]_vars

\* a text is one rule from its first character to its last, and the rule
\* is this one
IsTextOf(str, r) ==
    /\ str # <<>>
    /\ apply("rule", str, 1) = Ok(Len(str) + 1, r)

\* C20: slice_parse_cddl does not alter parsing: it fails exactly when
\* parse_cddl fails, with the same error; when it succeeds its rules are
\* those of parse_cddl in the same order, and the string stored with each
\* rule is the substring of the input the rule consumed, from the first
\* character of the rule name to the last character of its right-hand
\* side, with no whitespace or comment before or after it.
C20_SliceSameAsParse ==
    pc = "sliced" =>
        LET p == parse_cddl(input)
        IN  /\ result.k = p.k
            /\ result.k = "Err" => (result.kind = p.kind /\ result.pos = p.pos)
            /\ result.k = "Ok" =>
                /\ [j \in 1..Len(result.val[2]) |-> result.val[2][j][1]] = p.val[2]
                /\ \A j \in 1..Len(result.val[2]) :
                      IsTextOf(result.val[2][j][2], result.val[2][j][1])
                /\ (\A j \in 1..Len(parts) : parts[j].kind = "Rule") =>
                      [j \in 1..Len(result.val[2]) |-> result.val[2][j][2]]
                          = [j \in 1..Len(parts) |-> parts[j].text]

\* two rules, the first between blanks and the second between comments:
\* the strings are the rules without the blanks and the comments
C20_Witness ==
    /\ pc = "sliced"
    /\ Len(parts) = 2
    /\ parts[1].kind = "Rule"
    /\ parts[1].gap = <<" ">>
    /\ parts[2].kind = "Rule"
    /\ parts[2].gap = <<" ", ";", "c", "\n">>
    /\ result.k = "Ok"
    /\ result.val[2][1][2] = parts[1].text
    /\ result.val[2][2][2] = parts[2].text

(***************************************************************************)
(* parse_cddl on the same grammar elements with different whitespace       *)
(* between them.  `parts` holds the elements, the run of whitespace put    *)
(* into the odd and into the even places between them, and the runs in     *)
(* front of the text and behind it.                                        *)
(***************************************************************************)
\* texts as their grammar elements
Elements ==
    {<< <<"y">>, <<"=">>, <<"{">>, <<"a">>, <<":">>, <<"1">>, <<",">>, <<"?">>, <<"b">>,
        <<"^">>, <<"=", ">">>, <<"t", "s", "t", "r">>, <<"}">> >>,
     << <<"z">>, <<"=">>, <<"1">>, <<".", ".">>, <<"9">>, <<"/">>, <<"\"", "t", "\"">> >>,
     << <<"g">>, <<"=">>, <<"(">>, <<"2", "*", "3">>, <<"c">>, <<":">>, <<"i", "n", "t">>,
        <<"/", "/">>, <<"d">>, <<")">> >>,
     << <<"x">>, <<"=">>, <<"[">>, <<"*">>, <<"u", "i", "n", "t">>, <<".", "s", "i", "z", "e">>,
        <<"4">>, <<"]">>, <<"w">>, <<"=">>, <<"~">>, <<"x">> >>}

\* non-empty runs of blanks, tabs, line ends and comments that a line end
\* terminates
Runs ==
    {<<" ">>, <<"\t">>, <<"\n">>, <<"\r", "\n">>, <<";", "c", "\n">>,
     <<" ", ";", " ", "\n", " ">>}

\* the runs in front of a text and behind it
EndRuns == {<<>>, <<" ">>, <<";", "c", "\n">>}

\* the elements from the j-th on, with the runs between them
RECURSIVE SpacedFrom(_, _, _, _)
SpacedFrom(els, odd, even, j) ==
    IF j > Len(els) THEN <<>>
    ELSE IF j = Len(els) THEN els[j]
    ELSE els[j] \o (IF j % 2 = 1 THEN odd ELSE even) \o SpacedFrom(els, odd, even, j + 1)

InitSpacing ==
    /\ parts \in [els : Elements, odd : Runs, even : Runs, lead : EndRuns, trail : EndRuns]
    /\ input = parts.lead \o SpacedFrom(parts.els, parts.odd, parts.even, 1) \o parts.trail
    /\ pc = "parse_cddl"
    /\ result = Null
    /\ ast = Null
    /\ rules = Null
    /\ cursor = 0

SpecSpacing == InitSpacing /\ [][NextParse]_vars

ChildCount(n) ==
    CASE n[1] = "Choice" -> Len(n[2])
      [] n[1] = "Map" -> 2 * Len(n[2])
      [] OTHER -> 0

Child(n, j) ==
    IF n[1] = "Choice" THEN n[2][j]
    ELSE IF j % 2 = 1 THEN n[2][(j + 1) \div 2][2] ELSE n[2][(j + 1) \div 2][3]

RECURSIVE NodeAt(_, _)
NodeAt(n, path) ==
    IF path = <<>> THEN n ELSE NodeAt(Child(n, Head(path)), Tail(path))

\* the tree with the node at the path replaced
RECURSIVE PutAt(_, _, _)
PutAt(n, path, new) ==
    IF path = <<>> THEN new
    ELSE LET j == Head(path)
             sub == PutAt(Child(n, j), Tail(path), new)
             m == (j + 1) \div 2
         IN  IF n[1] = "Choice" THEN <<"Choice", [n[2] EXCEPT ![j] = sub]>>
             ELSE IF j % 2 = 1
                  THEN MapNode([n[2] EXCEPT ![m] = KeyValueNew(sub, n[2][m][3], n[2][m][4])])
                  ELSE MapNode([n[2] EXCEPT ![m] = KeyValueNew(n[2][m][2], sub, n[2][m][4])])

\* a walk that goes on through an upgraded reference into the rule it
\* points to
recurse_through_refs(addr) ==
    LET n == NodeAt(rules[addr[1]].node, addr[2])
    IN  IF n[1] = "Rule" /\ n[2] \in DOMAIN rules
        THEN << <<n[2], <<>>>> >>
        ELSE [j \in 1..ChildCount(n) |-> <<addr[1], Append(addr[2], j)>>]

\* the match of mutate_node_tree: the addresses it recurses into, in order;
\* Literal, PreludeType and Rule are leaf nodes
recurse_into(addr) ==
    LET n == NodeAt(rules[addr[1]].node, addr[2])
    IN  IF n[1] \in {"Literal", "PreludeType", "Rule"}
        THEN <<>>
        ELSE [j \in 1..ChildCount(n) |-> <<addr[1], Append(addr[2], j)>>]

\* for root in rules.values(): mutate_node_tree(root, ..) is called
EnterRoot ==
    /\ pc = "replace_rule_refs"
    /\ cursor < Len(Roots(rules))
    /\ pc' = "mutate_node_tree"
    /\ parts' = << <<Roots(rules)[cursor + 1], <<>>>> >>
    /\ input' = <<>>
    /\ UNCHANGED <<ast, rules, cursor, result>>

\* one call of mutate_node_tree: func(node)?, then the recursion into the
\* children is due
VisitNode ==
    /\ pc = "mutate_node_tree"
    /\ parts # <<>>
    /\ LET addr == Head(parts)
           node == NodeAt(rules[addr[1]].node, addr[2])
           n == replace_rule_ref(node, rules)
       IN  IF IsPanic(n)
           THEN /\ pc' = "panic"
                /\ result' = n
                /\ UNCHANGED <<rules, parts, input>>
           ELSE IF n[1] \notin {"Literal", "PreludeType", "Rule", "Choice", "Map"}
           THEN /\ pc' = "panic"
                /\ result' = Panic("not implemented", "")
                /\ UNCHANGED <<rules, parts, input>>
           ELSE /\ rules' = [rules EXCEPT ![addr[1]].node = PutAt(@, addr[2], n)]
                /\ parts' = recurse_into(addr) \o Tail(parts)
                /\ input' = Append(input, addr)
                /\ UNCHANGED <<pc, result>>
    /\ UNCHANGED <<ast, cursor>>

\* the outermost mutate_node_tree returns Ok(())
LeaveRoot ==
    /\ pc = "mutate_node_tree"
    /\ parts = <<>>
    /\ pc' = "replace_rule_refs"
    /\ cursor' = cursor + 1
    /\ UNCHANGED <<input, ast, parts, rules, result>>

NextWalk ==
    \/ FlattenRule
    \/ CallReplaceRuleRefs
    \/ EnterRoot
    \/ VisitNode
    \/ LeaveRoot
    \/ FlattenOk

\* flatten is a sequential function: a step that can be taken is taken
SpecWalk == InitFlatten /\ [][NextWalk]_vars /\ WF_vars(NextWalk)

\* the paths of the nodes a node owns, itself included
RECURSIVE PathsOf(_)
PathsOf(n) ==
    {<<>>} \cup UNION {{<<j>> \o p : p \in PathsOf(Child(n, j))} : j \in 1..ChildCount(n)}

\* the walk of the current root ran the closure against no node twice and
\* against no node of another root
VisitedAtMostOnce ==
    pc = "mutate_node_tree" =>
        /\ \A j, h \in 1..Len(input) : input[j] = input[h] => j = h
        /\ \A j \in 1..Len(input) :
            /\ input[j][1] = Roots(rules)[cursor + 1]
            /\ input[j][2] \in PathsOf(rules[input[j][1]].node)

\* a walk that returned ran the closure against every node the root owns
VisitedAll ==
    (pc = "mutate_node_tree" /\ parts = <<>>) =>
        {input[j][2] : j \in 1..Len(input)} = PathsOf(rules[Roots(rules)[cursor + 1]].node)

\* the walk node by node leaves the trees mutate_node_tree computes
WalkIsMutateNodeTree ==
    pc = "done" =>
        \A n \in DOMAIN rules :
            rules[n].node = mutate_node_tree(flatten_rule(ast[2][rules[n].id]).node, rules)

\* flatten is over: it returned or it panicked
FlattenOver == pc \in {"done", "panic"}

\* C22: flatten terminates on every schema, self-referential and mutually
\* recursive rules included: the walk of pass 2 treats a Rule node as a
\* leaf and never follows an installed pointer, so the closure runs against
\* each node a root owns exactly once per root.
C22_FlattenTerminates ==
    /\ []VisitedAtMostOnce
    /\ []VisitedAll
    /\ []WalkIsMutateNodeTree
    /\ <>FlattenOver

\* flatten returned Ok for two rules that refer to each other and to
\* themselves, after the walk of the second root ran against the three
\* nodes of its map
C22_Witness ==
    /\ pc = "done"
    /\ result[1] = "Ok"
    /\ Len(ast[2]) = 2
    /\ \A n \in {"a", "b"} :
        /\ n \in DOMAIN rules
        /\ {r[2] : r \in RuleRefsOf(rules[n].node)} = {"a", "b"}
    /\ Len(input) = 3
    /\ input[1] = <<"b", <<>>>>

(***************************************************************************)
(* flatten on syntax trees that define a name more than once: one rule     *)
(* more than there are names.                                              *)
(***************************************************************************)
NamesakePool ==
    {<<"Type", n, t>> :
        n \in {"a", "b"},
        t \in {Named1("a"), Named1("b"), Named1("int"),
                MapOf(<<Entry(Null, KeyType1(Typename("a")), Named1("b"))>>)}}
    \cup {<<"Type", "a", Named1("c")>>}
    \cup {<<"Group", "b", <<"ValueMemberKey", Null, Bareword("k"), Named1("int")>>>>}

InitNamesakes ==
    /\ ast \in {<<"CDDL", rs>> : rs \in [1..(MaxRules + 1) -> NamesakePool]}
    /\ pc = "flatten_rule"
    /\ rules = <<>>
    /\ cursor = 0
    /\ result = Null
    /\ input = <<>>
    /\ parts = <<>>

SpecNamesakes == InitNamesakes /\ [][NextFlatten]_vars

\* the names the syntax tree defines
DefinedNames == {ast[2][j][2] : j \in 1..Len(ast[2])}

\* some name is defined by two rules
HasNamesakes ==
    \E j, h \in 1..Len(ast[2]) : j < h /\ ast[2][j][2] = ast[2][h][2]

\* what pass 1 makes of the last rule with this name
LastDefinition(name) == flatten_rule(ast[2][LastRuleNamed(name)]).node

\* C23: when the input defines two or more rules with the same name,
\* flatten reports no error for it: the schema holds exactly one entry for
\* the name, the node of the last definition in source order, and every
\* reference to the name in any rule is back-patched to that last
\* definition.  A panic has another cause: a rule pass 1 does not support,
\* or a reference from a last definition to a name no rule defines.
C23_LastDefinitionWins ==
    HasNamesakes =>
        /\ pc \in {"replace_rule_refs", "done"} =>
            /\ DOMAIN rules = DefinedNames
            /\ \A n \in DOMAIN rules : rules[n].id = LastRuleNamed(n)
        /\ (pc = "replace_rule_refs" /\ cursor = 0) =>
            \A n \in DOMAIN rules : rules[n].node = LastDefinition(n)
        /\ pc = "done" =>
            /\ result[1] = "Ok"
            /\ \A n \in DOMAIN rules :
                /\ rules[n].node = mutate_node_tree(LastDefinition(n), rules)
                /\ \A r \in RuleRefsOf(rules[n].node) :
                    r[3] = Some(LastRuleNamed(r[2]))
        /\ pc = "panic" =>
            \/ /\ result[2] = "not implemented"
               /\ result = flatten_rule(ast[2][cursor + 1]).node
            \/ /\ result[2] = "tried to access nonexistent rule"
               /\ result[3] \notin DefinedNames
               /\ \E n \in DefinedNames :
                    result[3] \in {r[2] : r \in RuleRefsOf(LastDefinition(n))}

\* a is defined as int and then as a map; b, defined in between, refers to
\* a: flatten returns Ok, a is the map, and the references of b and of the
\* map itself point to the third rule
C23_Witness ==
    /\ pc = "done"
    /\ result[1] = "Ok"
    /\ ast[2][1] = <<"Type", "a", Named1("int")>>
    /\ ast[2][2] = <<"Type", "b", Named1("a")>>
    /\ ast[2][3][2] = "a"
    /\ DOMAIN rules = {"a", "b"}
    /\ rules["a"].node[1] = "Map"
    /\ rules["b"].node = <<"Rule", "a", Some(3)>>
    /\ <<"Rule", "a", Some(3)>> \in RuleRefsOf(rules["a"].node)

(***************************************************************************)
(* float_or_int on the integers around the limits of i64 and u64.          *)
(***************************************************************************)
\* the u64 of a magnitude that has one
LimitU64(m) ==
    CASE m = "0" -> U64(0)
      [] m = "1" -> U64(1)
      [] m = "2^63-1" -> <<65535, 65535, 65535, 32767>>
      [] m = "2^63" -> <<0, 0, 0, 32768>>
      [] m = "2^64-1" -> <<65535, 65535, 65535, 65535>>

\* float_or_int was called on an integer of LimitTexts
LimitCalled ==
    /\ pc = "called"
    /\ parts.parser = "float_or_int"
    /\ "mag" \in DOMAIN parts

\* C24: for an integer literal with a "-" prefix and magnitude m, in
\* decimal, hex or binary, parse_int returns Nint(-m) exactly when
\* m <= 2^63 - 1 and MalformedInteger otherwise: the negation never
\* overflows, -2^63 is rejected although it fits in i64, and -0 is Nint(0).
\* Without the prefix it returns Uint(m) for every m <= 2^64 - 1.
C24_NegativeUpToI64Max ==
    LimitCalled =>
        IF parts.neg
        THEN IF parts.mag \in {"0", "1", "2^63-1"}
             THEN /\ result = Ok(Len(input) + 1, Nint(LimitU64(parts.mag)))
                  /\ U64Le(result.val[2], <<65535, 65535, 65535, 32767>>)
             ELSE /\ result.k = "Failure"
                  /\ result.kind = "MalformedInteger"
        ELSE IF parts.mag # "2^64"
             THEN result = Ok(Len(input) + 1, Uint(LimitU64(parts.mag)))
             ELSE /\ result.k = "Failure"
                  /\ result.kind = "MalformedInteger"

\* -0x8000000000000000, which is -2^63, is rejected as a malformed integer
C24_Witness ==
    /\ LimitCalled
    /\ input = <<"-", "0", "x", "8">> \o Rep("0", 15)
    /\ result.k = "Failure"
    /\ result.kind = "MalformedInteger"

\* pass 1 has just stored rule j, a type rule of one type1 with a range or
\* control operator
OperatorStoredAt(j) ==
    /\ pc = "flatten_rule"
    /\ cursor = j
    /\ ast[2][j][1] = "Type"
    /\ Len(ast[2][j][3][2]) = 1
    /\ IsSome(ast[2][j][3][2][1][3])

\* C25: the flattener handles range and control operators as unsupported
\* rather than dropping them: flattening a type1 of the form a .. b,
\* a ... b or a .op b never yields the node that flattening the plain type
\* a alone yields.
C25_OperatorsNotDropped ==
    \A j \in 1..Len(ast[2]) :
        OperatorStoredAt(j) =>
            rules[ast[2][j][2]].node # flatten_type(TypeOf(<<ast[2][j][3][2][1][2]>>))

====
